---- MODULE Spec2Model ----
(***************************************************************************)
(* Model of the Smartlead MCP adapter: the call-tool request handler       *)
(* (server.ts), the tool registry (tools/index.ts), the tool handlers      *)
(* (tools/*.ts), the input schemas (types/smartlead.ts) and the transport  *)
(* client (smartlead-client.ts).                                           *)
(*                                                                         *)
(* JavaScript values are records of one shape,                             *)
(*   [t |-> type tag, n |-> integer part, s |-> text, kids |-> members],   *)
(* so that values of different JavaScript types can be compared.  A number *)
(* is an integer exactly when its s field is empty (1.5 is n = 1,          *)
(* s = ".5").  Numbers are mathematical: IEEE-754 negative zero and        *)
(* infinities are outside the model.  Texts (messages, envelope texts) are *)
(* sequences of tokens [k, n, s]; a marker phrase such as                  *)
(* "Smartlead API error" is one token, and String.prototype.includes is    *)
(* membership of that token.                                               *)
(***************************************************************************)
EXTENDS Integers, Sequences, FiniteSets, TLC

\* ------------------------------------------------------------------------
\* JavaScript / JSON values
\* ------------------------------------------------------------------------
Val(t, n, s, kids) == [t |-> t, n |-> n, s |-> s, kids |-> kids]

Undefined == Val("undefined", 0, "", <<>>)

Null == Val("null", 0, "", <<>>)

Bool(b) == Val("bool", IF b THEN 1 ELSE 0, "", <<>>)

Num(n) == Val("num", n, "", <<>>)

Frac(n, f) == Val("num", n, f, <<>>)

Str(s) == Val("str", 0, s, <<>>)

Arr(items) == Val("arr", 0, "", [i \in DOMAIN items |-> [k |-> "", v |-> items[i]]])

KV(k, v) == [k |-> k, v |-> v]

Obj(members) == Val("obj", 0, "", members)

IsInteger(v) == v.t = "num" /\ v.s = ""

Keys(o) == {o.kids[i].k : i \in DOMAIN o.kids}

Has(o, key) == o.t = "obj" /\ key \in Keys(o)

Get(o, key) ==
  IF Has(o, key)
  THEN o.kids[CHOOSE i \in DOMAIN o.kids : o.kids[i].k = key].v
  ELSE Undefined

\* { ...o, [key]: v } : an own key keeps its place, a new key goes last.
Put(o, key, v) ==
  IF Has(o, key)
  THEN Obj([i \in DOMAIN o.kids |-> IF o.kids[i].k = key THEN KV(key, v) ELSE o.kids[i]])
  ELSE Obj(Append(o.kids, KV(key, v)))

\* the members whose key is not in drop, in their order
SelectKids(kids, drop) ==
  LET Kept(kv) == kv.k \notin drop IN SelectSeq(kids, Kept)

\* const { key, ...rest } = o : the rest object.
Omit(o, key) == Obj(SelectKids(o.kids, {key}))

\* o with the members kids written over it: an own key of o keeps its place
\* and takes the new value, the new keys follow in their order.
SpreadKids(o, kids) ==
  LET b == Obj(kids) IN
  Obj([i \in DOMAIN o.kids |->
         IF Has(b, o.kids[i].k) THEN KV(o.kids[i].k, Get(b, o.kids[i].k))
         ELSE o.kids[i]]
      \o SelectKids(kids, Keys(o)))

\* { ...a, ...b } ; spreading undefined or null adds nothing.
Spread(a, b) == IF b.t = "obj" THEN SpreadKids(a, b.kids) ELSE a

\* ------------------------------------------------------------------------
\* Texts
\* ------------------------------------------------------------------------
Tok(k, n, s) == [n |-> n, s |-> s, k |-> k]

Txt(s) == Tok("txt", 0, s)

P(s) == Tok("p", 0, s)

NL == Tok("ws", 0, "\n")

Includes(text, phrase) == \E i \in DOMAIN text : text[i].k = "txt" /\ text[i].s = phrase

\* Template-literal conversion `${v}` of a value.
ToText(v) ==
  CASE v.t = "str" -> <<Txt(v.s)>>
    [] v.t = "num" -> <<Tok("num", v.n, v.s)>>
    [] v.t = "bool" -> <<Txt(IF v.n = 1 THEN "true" ELSE "false")>>
    [] v.t = "null" -> <<Txt("null")>>
    [] v.t = "undefined" -> <<Txt("undefined")>>
    [] v.t = "arr" -> <<Txt("<array items>")>>
    [] OTHER -> <<Txt("[object Object]")>>

\* ------------------------------------------------------------------------
\* JSON.stringify(value, null, 2) and JSON.parse(text)
\* ------------------------------------------------------------------------
RECURSIVE Indent(_)
Indent(d) == IF d = 0 THEN <<>> ELSE <<Tok("ws", 0, "  ")>> \o Indent(d - 1)

RECURSIVE Ser(_, _)
RECURSIVE SerKids(_, _, _, _)
SerKids(kids, i, d, withKeys) ==
  IF i > Len(kids) THEN <<>>
  ELSE <<NL>> \o Indent(d)
       \o (IF withKeys THEN <<Tok("str", 0, kids[i].k), P(":"), Tok("ws", 0, " ")>> ELSE <<>>)
       \o Ser(kids[i].v, d)
       \o (IF i < Len(kids) THEN <<P(",")>> ELSE <<>>)
       \o SerKids(kids, i + 1, d, withKeys)

Ser(v, d) ==
  CASE v.t = "null" -> <<Tok("lit", 0, "null")>>
    [] v.t = "bool" -> <<Tok("lit", 0, IF v.n = 1 THEN "true" ELSE "false")>>
    [] v.t = "num" -> <<Tok("num", v.n, v.s)>>
    [] v.t = "str" -> <<Tok("str", 0, v.s)>>
    [] v.t = "arr" ->
         IF v.kids = <<>> THEN <<P("["), P("]")>>
         ELSE <<P("[")>> \o SerKids(v.kids, 1, d + 1, FALSE) \o <<NL>> \o Indent(d) \o <<P("]")>>
    [] v.t = "obj" ->
         IF v.kids = <<>> THEN <<P("{"), P("}")>>
         ELSE <<P("{")>> \o SerKids(v.kids, 1, d + 1, TRUE) \o <<NL>> \o Indent(d) \o <<P("}")>>
    [] OTHER -> <<>>

JSONStringify(v) == Ser(v, 0)

SyntaxError == Val("SyntaxError", 0, "", <<>>)

StripWs(text) ==
  LET NotWs(tok) == tok.k # "ws" IN SelectSeq(text, NotWs)

ParseFail == [i |-> 0, v |-> Null, ok |-> FALSE]

ParseOk(v, i) == [i |-> i, v |-> v, ok |-> TRUE]

RECURSIVE ParseValue(_, _)
RECURSIVE ParseElems(_, _, _)
RECURSIVE ParseMembers(_, _, _)
ParseElems(t, i, acc) ==
  LET r == ParseValue(t, i) IN
  IF ~r.ok \/ r.i > Len(t) THEN ParseFail
  ELSE LET acc2 == Append(acc, KV("", r.v)) IN
       IF t[r.i] = P(",") THEN ParseElems(t, r.i + 1, acc2)
       ELSE IF t[r.i] = P("]") THEN ParseOk(Val("arr", 0, "", acc2), r.i + 1)
       ELSE ParseFail

ParseMembers(t, i, acc) ==
  IF i + 1 > Len(t) \/ t[i].k # "str" \/ t[i + 1] # P(":") THEN ParseFail
  ELSE LET r == ParseValue(t, i + 2) IN
       IF ~r.ok \/ r.i > Len(t) THEN ParseFail
       ELSE LET acc2 == Put(acc, t[i].s, r.v) IN
            IF t[r.i] = P(",") THEN ParseMembers(t, r.i + 1, acc2)
            ELSE IF t[r.i] = P("}") THEN ParseOk(acc2, r.i + 1)
            ELSE ParseFail

ParseValue(t, i) ==
  IF i > Len(t) THEN ParseFail
  ELSE CASE t[i].k = "num" -> ParseOk(Val("num", t[i].n, t[i].s, <<>>), i + 1)
         [] t[i].k = "str" -> ParseOk(Str(t[i].s), i + 1)
         [] t[i] = Tok("lit", 0, "null") -> ParseOk(Null, i + 1)
         [] t[i] = Tok("lit", 0, "true") -> ParseOk(Bool(TRUE), i + 1)
         [] t[i] = Tok("lit", 0, "false") -> ParseOk(Bool(FALSE), i + 1)
         [] t[i] = P("[") ->
              IF i + 1 <= Len(t) /\ t[i + 1] = P("]")
              THEN ParseOk(Val("arr", 0, "", <<>>), i + 2)
              ELSE ParseElems(t, i + 1, <<>>)
         [] t[i] = P("{") ->
              IF i + 1 <= Len(t) /\ t[i + 1] = P("}")
              THEN ParseOk(Obj(<<>>), i + 2)
              ELSE ParseMembers(t, i + 1, Obj(<<>>))
         [] OTHER -> ParseFail

JSONParse(text) ==
  LET t == StripWs(text)
      r == ParseValue(t, 1)
  IN IF r.ok /\ r.i = Len(t) + 1 THEN r.v ELSE SyntaxError

\* ------------------------------------------------------------------------
\* Zod: field types and z.object(...).parse
\* ------------------------------------------------------------------------
\* The strings the model uses that match zod's e-mail grammar.
EmailShaped == {"a@b.com", "lead@example.com"}

\* DateShaped with the fault of admitting calendar dates only
DateShapedCalendar == {"2025-01-01", "2025-01-31"}

\* The strings the model uses that match /^\d{4}-\d{2}-\d{2}$/.
DateShaped == {"2025-01-01", "2025-01-31", "2025-13-40"}

ZType(kind) ==
  [kind |-> kind, opt |-> FALSE, hasDef |-> FALSE, def |-> Undefined,
   hasMin |-> FALSE, min |-> 0, hasMax |-> FALSE, max |-> 0,
   minLen |-> 0, fmt |-> "", enum |-> {}, item |-> <<>>, shape |-> <<>>,
   pass |-> FALSE, hasMinItems |-> FALSE, minItems |-> 0,
   hasMaxItems |-> FALSE, maxItems |-> 0]

ZInt == ZType("int")

ZString == ZType("str")

ZBoolean == ZType("bool")

\* ZEnum with the fault of admitting every string (z.string() for z.enum)
ZEnumAnyString(values) == ZType("str")

\* z.enum([...])
ZEnum(values) == [ZType("enum") EXCEPT !.enum = values]

ZArray(item) == [ZType("arr") EXCEPT !.item = <<item>>]

\* ZObject with the fault of keeping undeclared keys (.passthrough())
ZObjectKeepsUnknown(shape) == [ZType("obj") EXCEPT !.shape = shape, !.pass = TRUE]

\* z.object({...}): undeclared keys are stripped
ZObject(shape) == [ZType("obj") EXCEPT !.shape = shape]

ZRecord == ZType("record")

Optional(z) == [z EXCEPT !.opt = TRUE]

Default(z, d) == [z EXCEPT !.hasDef = TRUE, !.def = d]

Min(z, m) == [z EXCEPT !.hasMin = TRUE, !.min = m]

\* Max with the fault of admitting one more than the bound
MaxPlusOne(z, m) == [z EXCEPT !.hasMax = TRUE, !.max = m + 1]

\* .max(m)
Max(z, m) == [z EXCEPT !.hasMax = TRUE, !.max = m]

\* .positive() : strictly greater than 0; on an integer that is >= 1.
Positive(z) == Min(z, 1)

MinLen(z, m) == [z EXCEPT !.minLen = m]

Email(z) == [z EXCEPT !.fmt = "email"]

DateRegex(z) == [z EXCEPT !.fmt = "date"]

MinItems(z, m) == [z EXCEPT !.hasMinItems = TRUE, !.minItems = m]

\* MaxItems with the fault of admitting one element more than the bound
MaxItemsPlusOne(z, m) == [z EXCEPT !.hasMaxItems = TRUE, !.maxItems = m + 1]

\* z.array(...).max(m)
MaxItems(z, m) == [z EXCEPT !.hasMaxItems = TRUE, !.maxItems = m]

Passthrough(z) == [z EXCEPT !.pass = TRUE]

Field(name, z) == [name |-> name, z |-> z]

ZodIssue == <<Txt("zod issues")>>

ZOk(v) == [v |-> v, ok |-> TRUE, issues |-> <<>>]

ZFail(issues) == [v |-> Undefined, ok |-> FALSE, issues |-> issues]

RECURSIVE ZParse(_, _)
\* every element of an array against the item type; the parsed elements, or
\* the issues of the first element that fails
ZParseItems(z, kids) ==
  LET r == [i \in DOMAIN kids |-> ZParse(z, kids[i].v)]
      bad == {i \in DOMAIN kids : ~r[i].ok}
  IN IF bad # {}
     THEN ZFail(r[CHOOSE i \in bad : \A j \in bad : i <= j].issues)
     ELSE ZOk(Val("arr", 0, "", [i \in DOMAIN kids |-> KV("", r[i].v)]))

\* the declared keys of an object in the order of the shape; a key whose
\* parsed value is undefined (absent optional) is left out
ZParseShape(shape, v) ==
  LET r == [i \in DOMAIN shape |-> ZParse(shape[i].z, Get(v, shape[i].name))]
      bad == {i \in DOMAIN shape : ~r[i].ok}
      Present(kv) == kv.v # Undefined
  IN IF bad # {}
     THEN ZFail(r[CHOOSE i \in bad : \A j \in bad : i <= j].issues)
     ELSE ZOk(Obj(SelectSeq([i \in DOMAIN shape |-> KV(shape[i].name, r[i].v)], Present)))

ZParse(z, v) ==
  IF v = Undefined /\ z.hasDef THEN ZOk(z.def)
  ELSE IF v = Undefined /\ z.opt THEN ZOk(Undefined)
  ELSE CASE z.kind = "int" ->
              IF /\ v.t = "num"
                 /\ IsInteger(v)
                 /\ (z.hasMin => v.n >= z.min)
                 /\ (z.hasMax => v.n <= z.max)
              THEN ZOk(v) ELSE ZFail(ZodIssue)
         [] z.kind = "str" ->
              IF /\ v.t = "str"
                 /\ Len(v.s) >= z.minLen
                 /\ (z.fmt = "email" => v.s \in EmailShaped)
                 /\ (z.fmt = "date" => v.s \in DateShaped)
              THEN ZOk(v) ELSE ZFail(ZodIssue)
         [] z.kind = "bool" -> IF v.t = "bool" THEN ZOk(v) ELSE ZFail(ZodIssue)
         [] z.kind = "enum" ->
              IF v.t = "str" /\ v.s \in z.enum THEN ZOk(v)
              ELSE IF v.t = "str"
                   THEN ZFail(ZodIssue \o <<Txt("received"), Txt(v.s)>>)
                   ELSE ZFail(ZodIssue)
         [] z.kind = "arr" ->
              IF /\ v.t = "arr"
                 /\ (z.hasMinItems => Len(v.kids) >= z.minItems)
                 /\ (z.hasMaxItems => Len(v.kids) <= z.maxItems)
              THEN ZParseItems(z.item[1], v.kids)
              ELSE ZFail(ZodIssue)
         [] z.kind = "obj" ->
              IF v.t # "obj" THEN ZFail(ZodIssue)
              ELSE LET r == ZParseShape(z.shape, v) IN
                   IF r.ok /\ z.pass
                   THEN ZOk(Spread(r.v,
                          Obj(SelectKids(v.kids, {z.shape[i].name : i \in DOMAIN z.shape}))))
                   ELSE r
         [] z.kind = "record" -> IF v.t = "obj" THEN ZOk(v) ELSE ZFail(ZodIssue)
         [] OTHER -> ZOk(v)

\* ZodError: name 'ZodError', message the serialized issues.
Err(name, msg) == [name |-> name, msg |-> msg, isErr |-> TRUE, same |-> FALSE]

ZodError(issues) == Err("ZodError", issues)

\* ------------------------------------------------------------------------
\* Input schemas (types/smartlead.ts)
\* ------------------------------------------------------------------------
\* IdType with the fault of accepting 0 (.nonnegative() for .positive())
IdTypeNonNegative == Min(ZInt, 0)

\* z.number().int().positive()
IdType == Positive(ZInt)

CreateCampaignSchema ==
  ZObject(<<Field("name", MinLen(ZString, 1)),
            Field("client_id", Optional(ZInt))>>)

GetCampaignSchema == ZObject(<<Field("campaign_id", IdType)>>)

UpdateCampaignScheduleSchema ==
  ZObject(<<Field("campaign_id", IdType),
            Field("timezone", Optional(ZString)),
            Field("days_of_the_week", Optional(ZArray(Max(Min(ZInt, 0), 6)))),
            Field("start_hour", Optional(ZString)),
            Field("end_hour", Optional(ZString)),
            Field("min_time_btw_emails", Optional(ZInt)),
            Field("max_new_leads_per_day", Optional(ZInt)),
            Field("schedule_start_time", Optional(ZString))>>)

UpdateCampaignSettingsSchema ==
  ZObject(<<Field("campaign_id", IdType),
            Field("track_settings", Optional(ZArray(ZString))),
            Field("stop_lead_settings", Optional(ZString)),
            Field("unsubscribe_text", Optional(ZString)),
            Field("send_as_plain_text", Optional(ZBoolean)),
            Field("follow_up_percentage", Optional(Max(Min(ZInt, 0), 100))),
            Field("client_id", Optional(ZInt)),
            Field("enable_ai_esp_matching", Optional(ZBoolean))>>)

UpdateCampaignStatusSchema ==
  ZObject(<<Field("campaign_id", IdType),
            Field("status", ZEnum({"PAUSED", "STOPPED", "START"}))>>)

ListCampaignLeadsSchema ==
  ZObject(<<Field("campaign_id", IdType),
            Field("offset", Default(Min(ZInt, 0), Num(0))),
            Field("limit", Default(Max(Min(ZInt, 1), 100), Num(100)))>>)

LeadRecordType ==
  ZObject(<<Field("first_name", MinLen(ZString, 1)),
            Field("last_name", MinLen(ZString, 1)),
            Field("email", Email(ZString)),
            Field("phone_number", Optional(ZString)),
            Field("company_name", Optional(ZString)),
            Field("website", Optional(ZString)),
            Field("location", Optional(ZString)),
            Field("linkedin_profile", Optional(ZString)),
            Field("company_url", Optional(ZString)),
            Field("custom_fields", Optional(ZRecord))>>)

AddLeadsSchema ==
  ZObject(<<Field("campaign_id", IdType),
            Field("lead_list", MaxItems(ZArray(LeadRecordType), 100)),
            Field("settings", Optional(ZObject(<<
               Field("ignore_global_block_list", Optional(ZBoolean)),
               Field("ignore_unsubscribe_list", Optional(ZBoolean)),
               Field("ignore_duplicate_leads_in_other_campaign", Optional(ZBoolean))>>)))>>)

LeadActionSchema ==
  ZObject(<<Field("campaign_id", IdType), Field("lead_id", IdType)>>)

ResumeLeadSchema ==
  ZObject(<<Field("campaign_id", IdType),
            Field("lead_id", IdType),
            Field("resume_lead_with_delay_days", Optional(ZInt))>>)

GetLeadByEmailSchema == ZObject(<<Field("email", Email(ZString))>>)

GetLeadCampaignsSchema == ZObject(<<Field("lead_id", IdType)>>)

ListEmailAccountsSchema ==
  ZObject(<<Field("offset", Default(Min(ZInt, 0), Num(0))),
            Field("limit", Default(Max(Min(ZInt, 1), 100), Num(100)))>>)

GetEmailAccountSchema == ZObject(<<Field("account_id", IdType)>>)

UpdateWarmupSettingsSchema ==
  ZObject(<<Field("email_account_id", IdType),
            Field("warmup_enabled", ZBoolean),
            Field("total_warmup_per_day", Optional(ZInt)),
            Field("daily_rampup", Optional(ZInt)),
            Field("reply_rate_percentage", Optional(Max(Min(ZInt, 0), 100))),
            Field("warmup_key_id", Optional(ZString))>>)

GetCampaignStatisticsSchema ==
  ZObject(<<Field("campaign_id", IdType),
            Field("offset", Default(Min(ZInt, 0), Num(0))),
            Field("limit", Default(Max(Min(ZInt, 1), 100), Num(100))),
            Field("email_sequence_number", Optional(ZInt)),
            Field("email_status", Optional(ZEnum(
               {"opened", "clicked", "replied", "unsubscribed", "bounced"})))>>)

GetCampaignAnalyticsByDateSchema ==
  ZObject(<<Field("campaign_id", IdType),
            Field("start_date", DateRegex(ZString)),
            Field("end_date", DateRegex(ZString))>>)

ManageCampaignEmailAccountsSchema ==
  ZObject(<<Field("campaign_id", IdType),
            Field("email_account_ids", MinItems(ZArray(IdType), 1))>>)

\* The two e-mail-account schemas are declared in types/smartlead.ts of the
\* revision that tools/email-accounts.ts imports; their fields are those of
\* the tool declarations and of the schema tests.
CreateEmailAccountSchema ==
  Passthrough(ZObject(<<
    Field("from_name", MinLen(ZString, 1)),
    Field("from_email", Email(ZString)),
    Field("username", MinLen(ZString, 1)),
    Field("password", MinLen(ZString, 1)),
    Field("smtp_host", MinLen(ZString, 1)),
    Field("smtp_port", IdType),
    Field("imap_host", MinLen(ZString, 1)),
    Field("imap_port", IdType),
    Field("message_per_day", IdType),
    Field("type", ZEnum({"SMTP", "GMAIL", "ZOHO", "OUTLOOK"})),
    Field("client_id", Optional(ZInt))>>))

UpdateEmailAccountSchema ==
  Passthrough(ZObject(<<
    Field("email_account_id", IdType),
    Field("from_name", Optional(MinLen(ZString, 1))),
    Field("from_email", Optional(Email(ZString))),
    Field("username", Optional(MinLen(ZString, 1))),
    Field("password", Optional(MinLen(ZString, 1))),
    Field("smtp_host", Optional(MinLen(ZString, 1))),
    Field("smtp_port", Optional(IdType)),
    Field("imap_host", Optional(MinLen(ZString, 1))),
    Field("imap_port", Optional(IdType)),
    Field("message_per_day", Optional(IdType)),
    Field("type", Optional(ZEnum({"SMTP", "GMAIL", "ZOHO", "OUTLOOK"}))),
    Field("client_id", Optional(ZInt))>>))

\* ------------------------------------------------------------------------
\* Transport client (smartlead-client.ts)
\* ------------------------------------------------------------------------
BASE_URL == "https://server.smartlead.ai/api/v1"

\* What a handler asks of the client: client.get / client.post / client.delete.
Call(m, endpoint, data, params) ==
  [m |-> m, endpoint |-> endpoint, data |-> data, params |-> params]

\* Outbound with the fault of sending the API key alone
OutboundKeyOnly(c, call) ==
  [endpoint |-> call.endpoint, data |-> call.data,
   params |-> Obj(<<KV("api_key", Str(c.apiKey))>>),
   baseURL |-> c.baseURL, verb |-> call.m]

\* The request the client hands to axios: the API key merged with the
\* caller's query parameters, params: { api_key: this.apiKey, ...params }.
Outbound(c, call) ==
  [endpoint |-> call.endpoint, data |-> call.data,
   params |-> Spread(Obj(<<KV("api_key", Str(c.apiKey))>>), call.params),
   baseURL |-> c.baseURL, verb |-> call.m]

\* A value thrown by axios.  isAxios is axios.isAxiosError(error); an
\* AxiosError is an Error, so isAxios implies isErr.
Thrown(isErr, isAxios, name, msg, hasResp, status, data, hasReq) ==
  [name |-> name, msg |-> msg, isErr |-> isErr, data |-> data,
   isAxios |-> isAxios, hasResp |-> hasResp, status |-> status, hasReq |-> hasReq]

\* ApiErrorMessage with the fault of giving the credentials hint for 401 only
ApiErrorMessage401Only(error) ==
  <<Txt("Smartlead API error"), Txt(" ("), Tok("num", error.status, ""), Txt(")")>>
  \o (IF Has(error.data, "error")
      THEN <<Txt(": ")>> \o ToText(Get(error.data, "error"))
      ELSE IF error.msg # <<>> THEN <<Txt(": ")>> \o error.msg
      ELSE <<>>)
  \o (IF error.status = 401
      THEN <<Txt(" - Check your API key is valid")>>
      ELSE IF error.status = 404 THEN <<Txt(" - Resource not found")>>
      ELSE IF error.status = 429
      THEN <<Txt(" - Rate limit exceeded, please try again later")>>
      ELSE <<>>)

ApiErrorMessage(error) ==
  <<Txt("Smartlead API error"), Txt(" ("), Tok("num", error.status, ""), Txt(")")>>
  \o (IF Has(error.data, "error")
      THEN <<Txt(": ")>> \o ToText(Get(error.data, "error"))
      ELSE IF error.msg # <<>> THEN <<Txt(": ")>> \o error.msg
      ELSE <<>>)
  \o (IF error.status = 401 \/ error.status = 403
      THEN <<Txt(" - Check your API key is valid")>>
      ELSE IF error.status = 404 THEN <<Txt(" - Resource not found")>>
      ELSE IF error.status = 429
      THEN <<Txt(" - Rate limit exceeded, please try again later")>>
      ELSE <<>>)

NoResponseMessage ==
  <<Txt("No response received from Smartlead API. Check your network connection.")>>

\* handleError with the fault of wrapping a passed-through Error in a new one
handleErrorWrap(error) ==
  IF error.isAxios /\ error.hasResp THEN Err("Error", ApiErrorMessage(error))
  ELSE IF error.isAxios /\ error.hasReq THEN Err("Error", NoResponseMessage)
  ELSE IF error.isErr THEN Err("Error", error.msg)
       ELSE Err("Error", <<Txt("Unknown error occurred")>>)

\* handleError with the fault of reporting a missing response as an unknown
\* error
handleErrorCollapse(error) ==
  IF error.isAxios /\ error.hasResp THEN Err("Error", ApiErrorMessage(error))
  ELSE IF error.isErr /\ ~(error.isAxios /\ error.hasReq)
       THEN [name |-> error.name, msg |-> error.msg, isErr |-> TRUE, same |-> TRUE]
       ELSE Err("Error", <<Txt("Unknown error occurred")>>)

handleError(error) ==
  IF error.isAxios /\ error.hasResp THEN Err("Error", ApiErrorMessage(error))
  ELSE IF error.isAxios /\ error.hasReq THEN Err("Error", NoResponseMessage)
  ELSE IF error.isErr
       THEN [name |-> error.name, msg |-> error.msg, isErr |-> TRUE, same |-> TRUE]
       ELSE Err("Error", <<Txt("Unknown error occurred")>>)

\* get/post/delete issue the axios request once; a rejection is mapped by
\* handleError and thrown, never retried.
\* RequestsOnReject with the fault of repeating the failed request
RequestsOnRejectRetry(requests) == requests \o requests

RequestsOnReject(requests) == requests

\* ------------------------------------------------------------------------
\* Call-tool request handler (server.ts)
\* ------------------------------------------------------------------------
TextBlock(text) == [text |-> text, type |-> "text"]

\* A handler's success envelope: { content: [ { type: 'text', text } ] }
Envelope(text) ==
  [kind |-> "envelope", content |-> <<TextBlock(text)>>,
   hasIsError |-> FALSE, isError |-> FALSE]

\* A value that is not an envelope (returned by a "handler" found on
\* Object.prototype).
NonEnvelope(kind) ==
  [kind |-> kind, content |-> <<>>, hasIsError |-> FALSE, isError |-> FALSE]

NoReturn == NonEnvelope("none")

\* Categorize with the fault of testing the message markers before the
\* ZodError name
CategorizeMessageFirst(error) ==
  IF error.isErr
  THEN IF Includes(error.msg, "Smartlead API error")
       THEN [errorType |-> "API Error", errorMessage |-> error.msg]
       ELSE IF Includes(error.msg, "Unknown tool")
       THEN [errorType |-> "Tool Error", errorMessage |-> error.msg]
       ELSE IF error.name = "ZodError"
       THEN [errorType |-> "Validation Error",
             errorMessage |-> <<Txt("Invalid input: ")>> \o error.msg]
       ELSE [errorType |-> "Error", errorMessage |-> error.msg]
  ELSE [errorType |-> "Unknown Error",
        errorMessage |-> <<Txt("An unexpected error occurred")>>]

Categorize(error) ==
  IF error.isErr
  THEN IF error.name = "ZodError"
       THEN [errorType |-> "Validation Error",
             errorMessage |-> <<Txt("Invalid input: ")>> \o error.msg]
       ELSE IF Includes(error.msg, "Smartlead API error")
       THEN [errorType |-> "API Error", errorMessage |-> error.msg]
       ELSE IF Includes(error.msg, "Unknown tool")
       THEN [errorType |-> "Tool Error", errorMessage |-> error.msg]
       ELSE [errorType |-> "Error", errorMessage |-> error.msg]
  ELSE [errorType |-> "Unknown Error",
        errorMessage |-> <<Txt("An unexpected error occurred")>>]

\* console.error(`[${errorType}] Tool: ${name} - ${errorMessage}`)
LogLine(toolName, error) ==
  LET c == Categorize(error) IN
  <<Txt("["), Txt(c.errorType), Txt("] Tool: "), Txt(toolName), Txt(" - ")>>
  \o c.errorMessage

\* CallToolCatch with the fault of rethrowing an error it has no category for
CallToolCatchRethrow(error) ==
  LET c == Categorize(error) IN
  IF c.errorType \in {"Error", "Unknown Error"} THEN NonEnvelope("escaped")
  ELSE [kind |-> "envelope",
        content |-> <<TextBlock(<<Txt(c.errorType), Txt(": ")>> \o c.errorMessage)>>,
        hasIsError |-> TRUE, isError |-> TRUE]

\* The catch block: the failure envelope.
CallToolCatch(error) ==
  LET c == Categorize(error) IN
  [kind |-> "envelope",
   content |-> <<TextBlock(<<Txt(c.errorType), Txt(": ")>> \o c.errorMessage)>>,
   hasIsError |-> TRUE, isError |-> TRUE]

\* ------------------------------------------------------------------------
\* Tool handlers (tools/campaigns.ts, leads.ts, email-accounts.ts, analytics.ts)
\* X(args, result) is the handler X called with args when its client call
\* resolves with result: Rejected(err) when the schema parse throws,
\* otherwise Started(params, call, out) with the one client call it awaits
\* and out, what the handler does after the await (Returned(text) or
\* Threw(err)).  In each handler Try(r) is `const params = Schema.parse(args)`
\* with r the outcome of the parse, and Then(params) the rest of the handler.
\* ------------------------------------------------------------------------
NoCall == Call("", <<>>, Undefined, Undefined)

NoErr == [name |-> "", msg |-> <<>>, isErr |-> FALSE, same |-> FALSE]

Returned(text) == [text |-> text, ok |-> TRUE, err |-> NoErr]

Threw(err) == [text |-> <<>>, ok |-> FALSE, err |-> err]

\* What a call of a handler comes to before its await:
\*   "throw" - it rejects with err
\*   "await" - it issued call and waits for the client; out is what it does
\*             once the call resolved
Started(params, call, out) ==
  [params |-> params, kind |-> "await", call |-> call, err |-> NoErr,
   out |-> out, value |-> NoReturn]

Rejected(err) ==
  [params |-> Undefined, kind |-> "throw", call |-> NoCall, err |-> err,
   out |-> Threw(err), value |-> NoReturn]

Truthy(v) ==
  CASE v.t \in {"undefined", "null"} -> FALSE
    [] v.t = "num" -> v.n # 0 \/ v.s # ""
    [] v.t = "str" -> v.s # ""
    [] v.t = "bool" -> v.n = 1
    [] OTHER -> TRUE

\* `${params.key}` inside a path or a message
Interp(params, key) == ToText(Get(params, key))

\* ---- tools/campaigns.ts ----
\* createCampaign with the fault of answering with the summary text of
\* release 0.1
createCampaignSummary(args, result) ==
  LET Then(params) ==
        Started(params, Call("post", <<Txt("/campaigns/create")>>,
               Spread(Obj(<<KV("name", Get(params, "name"))>>),
                      IF Truthy(Get(params, "client_id"))
                      THEN Obj(<<KV("client_id", Get(params, "client_id"))>>)
                      ELSE Get(params, "client_id")),
               Undefined),
               Returned(<<Txt("Campaign created successfully!\n\nID: ")>>
                        \o ToText(Get(result, "id"))
                        \o <<Txt("\nName: ")>> \o ToText(Get(result, "name"))))
      Try(r) == IF r.ok THEN Then(r.v) ELSE Rejected(ZodError(r.issues))
  IN Try(ZParse(CreateCampaignSchema, args))

createCampaign(args, result) ==
  LET Then(params) ==
        Started(params, Call("post", <<Txt("/campaigns/create")>>,
               Spread(Obj(<<KV("name", Get(params, "name"))>>),
                      IF Truthy(Get(params, "client_id"))
                      THEN Obj(<<KV("client_id", Get(params, "client_id"))>>)
                      ELSE Get(params, "client_id")),
               Undefined),
               Returned(JSONStringify(result)))
      Try(r) == IF r.ok THEN Then(r.v) ELSE Rejected(ZodError(r.issues))
  IN Try(ZParse(CreateCampaignSchema, args))

getCampaign(args, result) ==
  LET Then(params) ==
        Started(params, Call("get", <<Txt("/campaigns/")>> \o Interp(params, "campaign_id"), Undefined, Undefined),
               Returned(JSONStringify(result)))
      Try(r) == IF r.ok THEN Then(r.v) ELSE Rejected(ZodError(r.issues))
  IN Try(ZParse(GetCampaignSchema, args))

listCampaigns(args, result) == Started(Undefined, Call("get", <<Txt("/campaigns")>>, Undefined, Undefined),
            Returned(JSONStringify(result)))

\* updateCampaignSchedule with the fault of posting params whole, the
\* identifier included
updateCampaignScheduleWholeParams(args, result) ==
  LET Then(params) ==
        Started(params, Call("post", <<Txt("/campaigns/")>> \o Interp(params, "campaign_id") \o <<Txt("/schedule")>>,
               params, Undefined),
               Returned(JSONStringify(result)))
      Try(r) == IF r.ok THEN Then(r.v) ELSE Rejected(ZodError(r.issues))
  IN Try(ZParse(UpdateCampaignScheduleSchema, args))

updateCampaignSchedule(args, result) ==
  LET Then(params) ==
        Started(params, Call("post", <<Txt("/campaigns/")>> \o Interp(params, "campaign_id") \o <<Txt("/schedule")>>,
               Omit(params, "campaign_id"), Undefined),
               Returned(JSONStringify(result)))
      Try(r) == IF r.ok THEN Then(r.v) ELSE Rejected(ZodError(r.issues))
  IN Try(ZParse(UpdateCampaignScheduleSchema, args))

updateCampaignSettings(args, result) ==
  LET Then(params) ==
        Started(params, Call("post", <<Txt("/campaigns/")>> \o Interp(params, "campaign_id") \o <<Txt("/settings")>>,
               Omit(params, "campaign_id"), Undefined),
               Returned(JSONStringify(result)))
      Try(r) == IF r.ok THEN Then(r.v) ELSE Rejected(ZodError(r.issues))
  IN Try(ZParse(UpdateCampaignSettingsSchema, args))

updateCampaignStatus(args, result) ==
  LET Then(params) ==
        Started(params, Call("post", <<Txt("/campaigns/")>> \o Interp(params, "campaign_id") \o <<Txt("/status")>>,
               Obj(<<KV("status", Get(params, "status"))>>), Undefined),
               Returned(JSONStringify(result)))
      Try(r) == IF r.ok THEN Then(r.v) ELSE Rejected(ZodError(r.issues))
  IN Try(ZParse(UpdateCampaignStatusSchema, args))

deleteCampaign(args, result) ==
  LET Then(params) ==
        Started(params, Call("delete", <<Txt("/campaigns/")>> \o Interp(params, "campaign_id"), Undefined, Undefined),
               Returned(JSONStringify(result)))
      Try(r) == IF r.ok THEN Then(r.v) ELSE Rejected(ZodError(r.issues))
  IN Try(ZParse(GetCampaignSchema, args))

listCampaignEmailAccounts(args, result) ==
  LET Then(params) ==
        Started(params, Call("get", <<Txt("/campaigns/")>> \o Interp(params, "campaign_id") \o <<Txt("/email-accounts")>>, Undefined, Undefined),
               Returned(JSONStringify(result)))
      Try(r) == IF r.ok THEN Then(r.v) ELSE Rejected(ZodError(r.issues))
  IN Try(ZParse(GetCampaignSchema, args))

addCampaignEmailAccounts(args, result) ==
  LET Then(params) ==
        Started(params, Call("post", <<Txt("/campaigns/")>> \o Interp(params, "campaign_id") \o <<Txt("/email-accounts")>>,
               Obj(<<KV("email_account_ids", Get(params, "email_account_ids"))>>), Undefined),
               Returned(JSONStringify(result)))
      Try(r) == IF r.ok THEN Then(r.v) ELSE Rejected(ZodError(r.issues))
  IN Try(ZParse(ManageCampaignEmailAccountsSchema, args))

removeCampaignEmailAccounts(args, result) ==
  LET Then(params) ==
        Started(params, Call("delete", <<Txt("/campaigns/")>> \o Interp(params, "campaign_id") \o <<Txt("/email-accounts")>>,
               Obj(<<KV("email_account_ids", Get(params, "email_account_ids"))>>), Undefined),
               Returned(JSONStringify(result)))
      Try(r) == IF r.ok THEN Then(r.v) ELSE Rejected(ZodError(r.issues))
  IN Try(ZParse(ManageCampaignEmailAccountsSchema, args))

\* ---- tools/leads.ts ----
listCampaignLeads(args, result) ==
  LET Then(params) ==
        Started(params, Call("get", <<Txt("/campaigns/")>> \o Interp(params, "campaign_id") \o <<Txt("/leads")>>, Undefined,
               Obj(<<KV("offset", Get(params, "offset")), KV("limit", Get(params, "limit"))>>)),
               Returned(JSONStringify(result)))
      Try(r) == IF r.ok THEN Then(r.v) ELSE Rejected(ZodError(r.issues))
  IN Try(ZParse(ListCampaignLeadsSchema, args))

addLeadsToCampaign(args, result) ==
  LET Then(params) ==
        Started(params, Call("post", <<Txt("/campaigns/")>> \o Interp(params, "campaign_id") \o <<Txt("/leads")>>,
               Spread(Obj(<<KV("lead_list", Get(params, "lead_list"))>>),
                      IF Truthy(Get(params, "settings"))
                      THEN Obj(<<KV("settings", Get(params, "settings"))>>)
                      ELSE Get(params, "settings")),
               Undefined),
               Returned(JSONStringify(result)))
      Try(r) == IF r.ok THEN Then(r.v) ELSE Rejected(ZodError(r.issues))
  IN Try(ZParse(AddLeadsSchema, args))

pauseLead(args, result) ==
  LET Then(params) ==
        Started(params, Call("post", <<Txt("/campaigns/")>> \o Interp(params, "campaign_id") \o <<Txt("/leads/")>> \o Interp(params, "lead_id") \o <<Txt("/pause")>>, Undefined, Undefined),
               Returned(JSONStringify(result)))
      Try(r) == IF r.ok THEN Then(r.v) ELSE Rejected(ZodError(r.issues))
  IN Try(ZParse(LeadActionSchema, args))

\* resumeLead with the fault of testing the delay for truthiness (a delay
\* of 0 is then left out)
resumeLeadTruthy(args, result) ==
  LET Then(params) ==
        Started(params, Call("post", <<Txt("/campaigns/")>> \o Interp(params, "campaign_id") \o <<Txt("/leads/")>> \o Interp(params, "lead_id") \o <<Txt("/resume")>>,
               IF Truthy(Get(params, "resume_lead_with_delay_days"))
               THEN Obj(<<KV("resume_lead_with_delay_days",
                             Get(params, "resume_lead_with_delay_days"))>>)
               ELSE Obj(<<>>),
               Undefined),
               Returned(JSONStringify(result)))
      Try(r) == IF r.ok THEN Then(r.v) ELSE Rejected(ZodError(r.issues))
  IN Try(ZParse(ResumeLeadSchema, args))

resumeLead(args, result) ==
  LET Then(params) ==
        Started(params, Call("post", <<Txt("/campaigns/")>> \o Interp(params, "campaign_id") \o <<Txt("/leads/")>> \o Interp(params, "lead_id") \o <<Txt("/resume")>>,
               IF Get(params, "resume_lead_with_delay_days") # Undefined
               THEN Obj(<<KV("resume_lead_with_delay_days",
                             Get(params, "resume_lead_with_delay_days"))>>)
               ELSE Obj(<<>>),
               Undefined),
               Returned(JSONStringify(result)))
      Try(r) == IF r.ok THEN Then(r.v) ELSE Rejected(ZodError(r.issues))
  IN Try(ZParse(ResumeLeadSchema, args))

deleteLeadFromCampaign(args, result) ==
  LET Then(params) ==
        Started(params, Call("delete", <<Txt("/campaigns/")>> \o Interp(params, "campaign_id") \o <<Txt("/leads/")>> \o Interp(params, "lead_id"), Undefined, Undefined),
               Returned(JSONStringify(result)))
      Try(r) == IF r.ok THEN Then(r.v) ELSE Rejected(ZodError(r.issues))
  IN Try(ZParse(LeadActionSchema, args))

unsubscribeLeadFromCampaign(args, result) ==
  LET Then(params) ==
        Started(params, Call("post", <<Txt("/campaigns/")>> \o Interp(params, "campaign_id") \o <<Txt("/leads/")>> \o Interp(params, "lead_id") \o <<Txt("/unsubscribe")>>, Undefined, Undefined),
               Returned(JSONStringify(result)))
      Try(r) == IF r.ok THEN Then(r.v) ELSE Rejected(ZodError(r.issues))
  IN Try(ZParse(LeadActionSchema, args))

getLeadByEmail(args, result) ==
  LET Then(params) ==
        Started(params, Call("get", <<Txt("/leads")>>, Undefined, Obj(<<KV("email", Get(params, "email"))>>)),
               Returned(JSONStringify(result)))
      Try(r) == IF r.ok THEN Then(r.v) ELSE Rejected(ZodError(r.issues))
  IN Try(ZParse(GetLeadByEmailSchema, args))

unsubscribeLeadGlobally(args, result) ==
  LET Then(params) ==
        Started(params, Call("post", <<Txt("/leads/")>> \o Interp(params, "lead_id") \o <<Txt("/unsubscribe")>>, Undefined, Undefined),
               Returned(JSONStringify(result)))
      Try(r) == IF r.ok THEN Then(r.v) ELSE Rejected(ZodError(r.issues))
  IN Try(ZParse(GetLeadCampaignsSchema, args))

getLeadCampaigns(args, result) ==
  LET Then(params) ==
        Started(params, Call("get", <<Txt("/leads/")>> \o Interp(params, "lead_id") \o <<Txt("/campaigns")>>, Undefined, Undefined),
               Returned(JSONStringify(result)))
      Try(r) == IF r.ok THEN Then(r.v) ELSE Rejected(ZodError(r.issues))
  IN Try(ZParse(GetLeadCampaignsSchema, args))

\* ---- tools/email-accounts.ts ----
listEmailAccounts(args, result) ==
  LET Then(params) ==
        Started(params, Call("get", <<Txt("/email-accounts")>>, Undefined,
               Obj(<<KV("offset", Get(params, "offset")), KV("limit", Get(params, "limit"))>>)),
               \* accounts.length: reading it off null throws a TypeError
               IF result.t = "null"
               THEN Threw(Err("TypeError",
                      <<Txt("Cannot read properties of null (reading 'length')")>>))
               ELSE Returned(<<Txt("Found ")>>
                      \o (CASE result.t = "arr" -> <<Tok("num", Len(result.kids), "")>>
                            [] result.t = "str" -> <<Tok("num", Len(result.s), "")>>
                            [] OTHER -> <<Txt("undefined")>>)
                      \o <<Txt(" email accounts:\n\n")>> \o JSONStringify(result)))
      Try(r) == IF r.ok THEN Then(r.v) ELSE Rejected(ZodError(r.issues))
  IN Try(ZParse(ListEmailAccountsSchema, args))

getEmailAccount(args, result) ==
  LET Then(params) ==
        Started(params, Call("get", <<Txt("/email-accounts/")>> \o Interp(params, "account_id") \o <<Txt("/")>>, Undefined, Undefined),
               Returned(<<Txt("Email account details:\n\n")>> \o JSONStringify(result)))
      Try(r) == IF r.ok THEN Then(r.v) ELSE Rejected(ZodError(r.issues))
  IN Try(ZParse(GetEmailAccountSchema, args))

updateWarmupSettings(args, result) ==
  LET Then(params) ==
        Started(params, Call("post", <<Txt("/email-accounts/")>> \o Interp(params, "email_account_id") \o <<Txt("/warmup")>>,
               Omit(params, "email_account_id"), Undefined),
               Returned(<<Txt("Warmup settings updated successfully for email account ")>>
               \o Interp(params, "email_account_id")
               \o <<Txt(".\n\nWarmup enabled: ")>> \o Interp(params, "warmup_enabled")))
      Try(r) == IF r.ok THEN Then(r.v) ELSE Rejected(ZodError(r.issues))
  IN Try(ZParse(UpdateWarmupSettingsSchema, args))

getWarmupStats(args, result) ==
  LET Then(params) ==
        Started(params, Call("get", <<Txt("/email-accounts/")>> \o Interp(params, "account_id") \o <<Txt("/warmup-stats")>>, Undefined, Undefined),
               Returned(<<Txt("Warmup stats for email account ")>> \o Interp(params, "account_id")
               \o <<Txt(" (last 7 days):\n\n")>> \o JSONStringify(result)))
      Try(r) == IF r.ok THEN Then(r.v) ELSE Rejected(ZodError(r.issues))
  IN Try(ZParse(GetEmailAccountSchema, args))

reconnectFailedAccounts(args, result) == Started(Undefined, Call("post", <<Txt("/email-accounts/reconnect-failed-email-accounts")>>, Obj(<<>>), Undefined),
            Returned(<<Txt("Reconnection process initiated for failed email accounts.\n\n")>> \o JSONStringify(result)))

createEmailAccount(args, result) ==
  LET Then(params) ==
        Started(params, Call("post", <<Txt("/email-accounts/save")>>,
               Spread(Obj(<<KV("id", Null)>>), params), Undefined),
               Returned(<<Txt("Email account created successfully:\n\n")>> \o JSONStringify(result)))
      Try(r) == IF r.ok THEN Then(r.v) ELSE Rejected(ZodError(r.issues))
  IN Try(ZParse(CreateEmailAccountSchema, args))

\* updateEmailAccount with the fault of leaving undeclared fields out of the body
updateEmailAccountDeclaredOnly(args, result) ==
  LET Then(params) ==
        Started(params, Call("post", <<Txt("/email-accounts/")>> \o Interp(params, "email_account_id"),
               Omit(Omit(params, "email_account_id"), "extra_field"), Undefined),
               Returned(<<Txt("Email account ")>> \o Interp(params, "email_account_id")
               \o <<Txt(" updated successfully:\n\n")>> \o JSONStringify(result)))
      Try(r) == IF r.ok THEN Then(r.v) ELSE Rejected(ZodError(r.issues))
  IN Try(ZParse(UpdateEmailAccountSchema, args))

updateEmailAccount(args, result) ==
  LET Then(params) ==
        Started(params, Call("post", <<Txt("/email-accounts/")>> \o Interp(params, "email_account_id"),
               Omit(params, "email_account_id"), Undefined),
               Returned(<<Txt("Email account ")>> \o Interp(params, "email_account_id")
               \o <<Txt(" updated successfully:\n\n")>> \o JSONStringify(result)))
      Try(r) == IF r.ok THEN Then(r.v) ELSE Rejected(ZodError(r.issues))
  IN Try(ZParse(UpdateEmailAccountSchema, args))

\* ---- tools/analytics.ts ----
getCampaignStatistics(args, result) ==
  LET Then(params) ==
        Started(params, Call("get", <<Txt("/campaigns/")>> \o Interp(params, "campaign_id") \o <<Txt("/statistics")>>, Undefined,
               Spread(Spread(Obj(<<KV("offset", Get(params, "offset")),
                                   KV("limit", Get(params, "limit"))>>),
                        IF Get(params, "email_sequence_number") # Undefined
                        THEN Obj(<<KV("email_sequence_number",
                                      Get(params, "email_sequence_number"))>>)
                        ELSE Undefined),
                 IF Get(params, "email_status") # Undefined
                 THEN Obj(<<KV("email_status", Get(params, "email_status"))>>)
                 ELSE Undefined)),
               Returned(<<Txt("Campaign ")>> \o Interp(params, "campaign_id")
               \o <<Txt(" statistics:\n\n")>> \o JSONStringify(result)))
      Try(r) == IF r.ok THEN Then(r.v) ELSE Rejected(ZodError(r.issues))
  IN Try(ZParse(GetCampaignStatisticsSchema, args))

getCampaignAnalytics(args, result) ==
  LET Then(params) ==
        Started(params, Call("get", <<Txt("/campaigns/")>> \o Interp(params, "campaign_id") \o <<Txt("/analytics")>>, Undefined, Undefined),
               Returned(<<Txt("Campaign ")>> \o Interp(params, "campaign_id")
               \o <<Txt(" analytics:\n\n")>> \o JSONStringify(result)))
      Try(r) == IF r.ok THEN Then(r.v) ELSE Rejected(ZodError(r.issues))
  IN Try(ZParse(GetCampaignSchema, args))

getCampaignAnalyticsByDate(args, result) ==
  LET Then(params) ==
        Started(params, Call("get", <<Txt("/campaigns/")>> \o Interp(params, "campaign_id") \o <<Txt("/analytics-by-date")>>, Undefined,
               Obj(<<KV("start_date", Get(params, "start_date")),
                     KV("end_date", Get(params, "end_date"))>>)),
               Returned(<<Txt("Campaign ")>> \o Interp(params, "campaign_id")
               \o <<Txt(" analytics from ")>> \o Interp(params, "start_date")
               \o <<Txt(" to ")>> \o Interp(params, "end_date")
               \o <<Txt(":\n\n")>> \o JSONStringify(result)))
      Try(r) == IF r.ok THEN Then(r.v) ELSE Rejected(ZodError(r.issues))
  IN Try(ZParse(GetCampaignAnalyticsByDateSchema, args))

\* ------------------------------------------------------------------------
\* Tool catalog (schemas/*.ts) and handler registry (tools/index.ts)
\* ------------------------------------------------------------------------
campaignTools ==
  <<"create_campaign",
    "get_campaign",
    "list_campaigns",
    "update_campaign_schedule",
    "update_campaign_settings",
    "update_campaign_status",
    "delete_campaign",
    "list_campaign_email_accounts",
    "add_campaign_email_accounts",
    "remove_campaign_email_accounts">>

leadTools ==
  <<"list_campaign_leads",
    "add_leads_to_campaign",
    "pause_lead",
    "resume_lead",
    "delete_lead_from_campaign",
    "unsubscribe_lead_from_campaign",
    "get_lead_by_email",
    "unsubscribe_lead_globally",
    "get_lead_campaigns">>

emailAccountTools ==
  <<"list_email_accounts",
    "get_email_account",
    "update_warmup_settings",
    "get_warmup_stats",
    "reconnect_failed_accounts",
    "create_email_account",
    "update_email_account">>

analyticsTools ==
  <<"get_campaign_statistics",
    "get_campaign_analytics",
    "get_campaign_analytics_by_date">>

\* ALL_TOOLS with the fault of spreading campaignTools a second time in
\* place of analyticsTools
ALL_TOOLS_CampaignsTwice ==
  campaignTools \o leadTools \o emailAccountTools \o campaignTools

ALL_TOOLS == campaignTools \o leadTools \o emailAccountTools \o analyticsTools

\* The own keys of the toolHandlers object literal.
HandlerNames ==
  {"create_campaign",
   "get_campaign",
   "list_campaigns",
   "update_campaign_schedule",
   "update_campaign_settings",
   "update_campaign_status",
   "delete_campaign",
   "list_campaign_email_accounts",
   "add_campaign_email_accounts",
   "remove_campaign_email_accounts",
   "list_campaign_leads",
   "add_leads_to_campaign",
   "pause_lead",
   "resume_lead",
   "delete_lead_from_campaign",
   "unsubscribe_lead_from_campaign",
   "get_lead_by_email",
   "unsubscribe_lead_globally",
   "get_lead_campaigns",
   "list_email_accounts",
   "get_email_account",
   "update_warmup_settings",
   "get_warmup_stats",
   "reconnect_failed_accounts",
   "create_email_account",
   "update_email_account",
   "get_campaign_statistics",
   "get_campaign_analytics",
   "get_campaign_analytics_by_date"}

\* toolHandlers is a plain object literal: a key that is not its own is
\* looked up on Object.prototype.
ObjectPrototypeMembers ==
  {"constructor", "toString", "valueOf", "hasOwnProperty", "__proto__"}

\* toolHandlers[toolName]
toolHandlers(toolName) ==
  IF toolName \in HandlerNames THEN "handler"
  ELSE IF toolName \in ObjectPrototypeMembers THEN "inherited"
  ELSE "undefined"

\* handler(client, args) for a registered handler whose client call resolves
\* with result
handler(toolName, args, result) ==
  CASE toolName = "create_campaign" -> createCampaign(args, result)
    [] toolName = "get_campaign" -> getCampaign(args, result)
    [] toolName = "list_campaigns" -> listCampaigns(args, result)
    [] toolName = "update_campaign_schedule" -> updateCampaignSchedule(args, result)
    [] toolName = "update_campaign_settings" -> updateCampaignSettings(args, result)
    [] toolName = "update_campaign_status" -> updateCampaignStatus(args, result)
    [] toolName = "delete_campaign" -> deleteCampaign(args, result)
    [] toolName = "list_campaign_email_accounts" -> listCampaignEmailAccounts(args, result)
    [] toolName = "add_campaign_email_accounts" -> addCampaignEmailAccounts(args, result)
    [] toolName = "remove_campaign_email_accounts" -> removeCampaignEmailAccounts(args, result)
    [] toolName = "list_campaign_leads" -> listCampaignLeads(args, result)
    [] toolName = "add_leads_to_campaign" -> addLeadsToCampaign(args, result)
    [] toolName = "pause_lead" -> pauseLead(args, result)
    [] toolName = "resume_lead" -> resumeLead(args, result)
    [] toolName = "delete_lead_from_campaign" -> deleteLeadFromCampaign(args, result)
    [] toolName = "unsubscribe_lead_from_campaign" -> unsubscribeLeadFromCampaign(args, result)
    [] toolName = "get_lead_by_email" -> getLeadByEmail(args, result)
    [] toolName = "unsubscribe_lead_globally" -> unsubscribeLeadGlobally(args, result)
    [] toolName = "get_lead_campaigns" -> getLeadCampaigns(args, result)
    [] toolName = "list_email_accounts" -> listEmailAccounts(args, result)
    [] toolName = "get_email_account" -> getEmailAccount(args, result)
    [] toolName = "update_warmup_settings" -> updateWarmupSettings(args, result)
    [] toolName = "get_warmup_stats" -> getWarmupStats(args, result)
    [] toolName = "reconnect_failed_accounts" -> reconnectFailedAccounts(args, result)
    [] toolName = "create_email_account" -> createEmailAccount(args, result)
    [] toolName = "update_email_account" -> updateEmailAccount(args, result)
    [] toolName = "get_campaign_statistics" -> getCampaignStatistics(args, result)
    [] toolName = "get_campaign_analytics" -> getCampaignAnalytics(args, result)
    [] toolName = "get_campaign_analytics_by_date" -> getCampaignAnalyticsByDate(args, result)

\* handler(client, args) when handler is a member of Object.prototype,
\* called with this = undefined:
\*   Object(client, args) returns client; Object.prototype.toString returns
\*   "[object Undefined]"; valueOf and hasOwnProperty throw on ToObject(this);
\*   __proto__ is Object.prototype itself, which is not callable.
InheritedCall(toolName) ==
  [params |-> Undefined,
   kind |-> IF toolName \in {"constructor", "toString"} THEN "return" ELSE "throw",
   call |-> NoCall,
   err |-> CASE toolName \in {"constructor", "toString"} -> NoErr
             [] toolName = "__proto__" ->
                  Err("TypeError", <<Txt("handler is not a function")>>)
             [] OTHER ->
                  Err("TypeError", <<Txt("Cannot convert undefined or null to object")>>),
   out |-> Threw(NoErr),
   value |-> CASE toolName = "constructor" -> NonEnvelope("client")
               [] toolName = "toString" -> NonEnvelope("string")
               [] OTHER -> NoReturn]

\* return handler(client, args) for a member of Object.prototype that
\* returned: Object(client, args) is its first argument, the client object
\* itself (fields apiKey and the axios instance).
InheritedReturn(c, value) ==
  IF value.kind = "client" THEN [value EXCEPT !.content = <<c>>] ELSE value

\* console.warn of executeTool when a handler was found for a name that
\* the catalog does not list
Warning(toolName) ==
  IF toolHandlers(toolName) # "undefined" /\ ~(\E i \in DOMAIN ALL_TOOLS : ALL_TOOLS[i] = toolName)
  THEN <<<<Txt("[Warning] Handler exists for '"), Txt(toolName),
           Txt("' but tool not found in ALL_TOOLS schema registry")>>>>
  ELSE <<>>

hasToolHandler(toolName) == toolHandlers(toolName) # "undefined"

\* executeTool(toolName, client, args) up to the handler's await:
\*   "throw"  - it rejects with err
\*   "return" - it resolves with value without a client call
\*   "await"  - the handler issued call and waits for the client
executeTool(toolName, args) ==
  IF toolHandlers(toolName) = "undefined"
  THEN [params |-> Undefined, kind |-> "throw", call |-> NoCall,
        err |-> Err("Error", <<Txt("Unknown tool"), Txt(": "), Txt(toolName)>>),
        out |-> Threw(NoErr), value |-> NoReturn]
  ELSE IF toolHandlers(toolName) = "inherited"
  THEN InheritedCall(toolName)
  ELSE handler(toolName, args, Undefined)

\* ------------------------------------------------------------------------
\* Inputs: tool names, argument objects, upstream replies
\* ------------------------------------------------------------------------
\* identifiers 1..MaxId are the valid identifiers the model supplies
MaxId == 2

\* replies are nested up to MaxDepth levels around a base reply
MaxDepth == 2

ApiKeys == {"key-A", "key-B"}

\* the names a request may carry: the registered ones, names found on
\* Object.prototype, and names found nowhere
ToolNames ==
  HandlerNames \cup ObjectPrototypeMembers
  \cup {"", "unknown_tool", "save_campaign_sequences", "Smartlead API error"}

Lead(first, email) ==
  Obj(<<KV("first_name", Str(first)), KV("last_name", Str("Doe")), KV("email", Str(email))>>)

\* a lead_list of n valid entries, two leads in turn
Leads(n) ==
  Arr([i \in 1..n |-> IF i % 2 = 1 THEN Lead("John", "a@b.com")
                                   ELSE Lead("Jane", "lead@example.com")])

\* the fully populated valid input of each tool
BaseArgs(toolName) ==
  CASE toolName = "create_campaign" ->
         Obj(<<KV("name", Str("Test")), KV("client_id", Num(5))>>)
    [] toolName \in {"get_campaign", "delete_campaign", "list_campaign_email_accounts",
                     "get_campaign_analytics"} ->
         Obj(<<KV("campaign_id", Num(1))>>)
    [] toolName = "update_campaign_schedule" ->
         Obj(<<KV("campaign_id", Num(1)), KV("timezone", Str("UTC")),
               KV("days_of_the_week", Arr(<<Num(0), Num(6)>>)),
               KV("start_hour", Str("09:00")), KV("end_hour", Str("17:00")),
               KV("min_time_btw_emails", Num(10)), KV("max_new_leads_per_day", Num(20)),
               KV("schedule_start_time", Str("2025-01-01T00:00:00Z"))>>)
    [] toolName = "update_campaign_settings" ->
         Obj(<<KV("campaign_id", Num(1)), KV("track_settings", Arr(<<Str("DONT_TRACK_EMAIL_OPEN")>>)),
               KV("stop_lead_settings", Str("REPLY_TO_AN_EMAIL")),
               KV("unsubscribe_text", Str("bye")), KV("send_as_plain_text", Bool(FALSE)),
               KV("follow_up_percentage", Num(50)), KV("client_id", Num(5)),
               KV("enable_ai_esp_matching", Bool(TRUE))>>)
    [] toolName = "update_campaign_status" ->
         Obj(<<KV("campaign_id", Num(1)), KV("status", Str("PAUSED"))>>)
    [] toolName \in {"add_campaign_email_accounts", "remove_campaign_email_accounts"} ->
         Obj(<<KV("campaign_id", Num(1)), KV("email_account_ids", Arr(<<Num(1), Num(2)>>))>>)
    [] toolName = "list_campaign_leads" ->
         Obj(<<KV("campaign_id", Num(1)), KV("offset", Num(5)), KV("limit", Num(50))>>)
    [] toolName = "add_leads_to_campaign" ->
         Obj(<<KV("campaign_id", Num(1)),
               KV("lead_list", Arr(<<Lead("John", "a@b.com")>>)),
               KV("settings", Obj(<<KV("ignore_global_block_list", Bool(TRUE))>>))>>)
    [] toolName \in {"pause_lead", "delete_lead_from_campaign", "unsubscribe_lead_from_campaign"} ->
         Obj(<<KV("campaign_id", Num(1)), KV("lead_id", Num(2))>>)
    [] toolName = "resume_lead" ->
         Obj(<<KV("campaign_id", Num(1)), KV("lead_id", Num(2)),
               KV("resume_lead_with_delay_days", Num(5))>>)
    [] toolName = "get_lead_by_email" -> Obj(<<KV("email", Str("a@b.com"))>>)
    [] toolName \in {"unsubscribe_lead_globally", "get_lead_campaigns"} ->
         Obj(<<KV("lead_id", Num(1))>>)
    [] toolName = "list_email_accounts" ->
         Obj(<<KV("offset", Num(5)), KV("limit", Num(50))>>)
    [] toolName \in {"get_email_account", "get_warmup_stats"} ->
         Obj(<<KV("account_id", Num(1))>>)
    [] toolName = "update_warmup_settings" ->
         Obj(<<KV("email_account_id", Num(1)), KV("warmup_enabled", Bool(TRUE)),
               KV("total_warmup_per_day", Num(10)), KV("daily_rampup", Num(2)),
               KV("reply_rate_percentage", Num(30)), KV("warmup_key_id", Str("k1"))>>)
    [] toolName = "create_email_account" ->
         Obj(<<KV("from_name", Str("Sender")), KV("from_email", Str("a@b.com")),
               KV("username", Str("user")), KV("password", Str("pass")),
               KV("smtp_host", Str("smtp.example.com")), KV("smtp_port", Num(587)),
               KV("imap_host", Str("imap.example.com")), KV("imap_port", Num(993)),
               KV("message_per_day", Num(50)), KV("type", Str("SMTP")),
               KV("client_id", Num(5))>>)
    [] toolName = "update_email_account" ->
         Obj(<<KV("email_account_id", Num(1)), KV("from_name", Str("Sender")),
               KV("message_per_day", Num(50)), KV("type", Str("GMAIL"))>>)
    [] toolName = "get_campaign_statistics" ->
         Obj(<<KV("campaign_id", Num(1)), KV("offset", Num(5)), KV("limit", Num(50)),
               KV("email_sequence_number", Num(2)), KV("email_status", Str("opened"))>>)
    [] toolName = "get_campaign_analytics_by_date" ->
         Obj(<<KV("campaign_id", Num(1)), KV("start_date", Str("2025-01-01")),
               KV("end_date", Str("2025-01-31"))>>)
    [] OTHER -> Obj(<<>>)

\* the identifier fields of each tool's schema
IdFields(toolName) ==
  CASE toolName \in {"get_campaign", "delete_campaign", "list_campaign_email_accounts",
                     "get_campaign_analytics", "update_campaign_schedule",
                     "update_campaign_settings", "update_campaign_status",
                     "add_campaign_email_accounts", "remove_campaign_email_accounts",
                     "list_campaign_leads", "add_leads_to_campaign",
                     "get_campaign_statistics", "get_campaign_analytics_by_date"} ->
         {"campaign_id"}
    [] toolName \in {"pause_lead", "resume_lead", "delete_lead_from_campaign",
                     "unsubscribe_lead_from_campaign"} -> {"campaign_id", "lead_id"}
    [] toolName \in {"unsubscribe_lead_globally", "get_lead_campaigns"} -> {"lead_id"}
    [] toolName \in {"get_email_account", "get_warmup_stats"} -> {"account_id"}
    [] toolName \in {"update_warmup_settings", "update_email_account"} -> {"email_account_id"}
    [] OTHER -> {}

\* values offered for the other fields (Undefined: the field is left out)
FieldValues(toolName) ==
  LET IntValues == {Undefined, Num(0), Num(5), Num(-1), Num(-3), Num(100), Num(101),
                    Frac(1, ".5"), Str("5")}
      Marked == {"Smartlead API error", "Unknown tool"}
  IN
  CASE toolName = "create_campaign" ->
         ({"name"} \X {Undefined, Str(""), Num(1), Str("X")})
         \cup ({"client_id"} \X IntValues)
    [] toolName = "update_campaign_schedule" ->
         ({"days_of_the_week"} \X {Undefined, Arr(<<>>), Arr(<<Num(7)>>), Arr(<<Num(-1)>>),
                                    Arr(<<Frac(1, ".5")>>), Num(1), Arr(<<Str("1")>>),
                                    Arr(<<Num(3), Num(7)>>),
                                    Arr(<<Num(0), Num(1), Num(2), Num(3), Num(4), Num(5), Num(6)>>)})
         \cup ({"timezone"} \X {Undefined, Num(1)})
         \cup ({"min_time_btw_emails"} \X IntValues)
    [] toolName = "update_campaign_settings" ->
         ({"follow_up_percentage"} \X IntValues)
         \cup ({"send_as_plain_text"} \X {Undefined, Bool(TRUE), Str("yes")})
         \cup ({"track_settings"} \X {Undefined, Arr(<<>>), Arr(<<Num(1)>>)})
    [] toolName = "update_campaign_status" ->
         {"status"} \X ({Undefined, Num(1)}
                        \cup {Str(x) : x \in {"STOPPED", "START", "ACTIVE", "paused"} \cup Marked})
    [] toolName \in {"add_campaign_email_accounts", "remove_campaign_email_accounts"} ->
         {"email_account_ids"} \X {Undefined, Arr(<<>>), Arr(<<Num(0)>>), Arr(<<Num(1)>>),
                                    Arr(<<Str("1")>>), Num(1)}
    [] toolName \in {"list_campaign_leads", "list_email_accounts"} ->
         ({"offset"} \X {Undefined, Num(0), Num(-1), Frac(1, ".5"), Str("0")})
         \cup ({"limit"} \X {Undefined, Num(0), Num(1), Num(100), Num(101), Num(-1), Str("10")})
    [] toolName = "add_leads_to_campaign" ->
         ({"lead_list"} \X {Undefined, Arr(<<>>),
                             Arr(<<Lead("John", "a@b.com"), Lead("Jane", "lead@example.com")>>),
                             Arr(<<Lead("", "a@b.com")>>),
                             Arr(<<Lead("John", "not-an-email")>>),
                             Arr(<<Put(Lead("John", "a@b.com"), "extra_field", Str("x"))>>),
                             Leads(100), Leads(101),
                             Str("leads")})
         \cup ({"settings"} \X {Undefined, Obj(<<>>), Str("all"),
                                 Obj(<<KV("ignore_global_block_list", Bool(FALSE)),
                                       KV("extra_field", Str("x"))>>),
                                 Obj(<<KV("ignore_unsubscribe_list", Num(1))>>)})
    [] toolName = "resume_lead" ->
         {"resume_lead_with_delay_days"} \X IntValues
    [] toolName = "get_lead_by_email" ->
         {"email"} \X {Undefined, Str("lead@example.com"), Str("not-an-email"), Str(""), Num(1)}
    [] toolName = "update_warmup_settings" ->
         ({"warmup_enabled"} \X {Undefined, Bool(FALSE), Str("true"), Num(1)})
         \cup ({"reply_rate_percentage"} \X IntValues)
         \cup ({"warmup_key_id"} \X {Undefined, Num(1)})
    [] toolName = "create_email_account" ->
         ({"from_email"} \X {Undefined, Str("not-an-email")})
         \cup ({"from_name"} \X {Undefined, Str("")})
         \cup ({"smtp_port"} \X {Undefined, Num(0), Str("587")})
         \cup ({"type"} \X ({Undefined} \cup {Str(x) : x \in {"GMAIL", "ZOHO", "OUTLOOK", "IMAP"} \cup Marked}))
         \cup ({"client_id"} \X {Undefined, Str("5")})
         \cup ({"id"} \X {Num(7)})
    [] toolName = "update_email_account" ->
         ({"from_name"} \X {Undefined, Str("")})
         \cup ({"type"} \X {Undefined, Str("IMAP")})
         \cup ({"message_per_day"} \X {Undefined, Num(0)})
    [] toolName = "get_campaign_statistics" ->
         ({"offset"} \X {Undefined, Num(0), Num(-1)})
         \cup ({"limit"} \X {Undefined, Num(0), Num(1), Num(100), Num(101), Num(-1)})
         \cup ({"email_sequence_number"} \X {Undefined, Num(0), Str("2")})
         \cup ({"email_status"} \X ({Undefined}
                 \cup {Str(x) : x \in {"clicked", "replied", "unsubscribed", "bounced", "sent"} \cup Marked}))
    [] toolName = "get_campaign_analytics_by_date" ->
         ({"start_date"} \X {Undefined, Str("2025-13-40"), Str("01-01-2025"), Num(20250101),
                               Str("2025-1-1"), Str("2025-01-01T00:00:00Z"), Str("")})
         \cup ({"end_date"} \X {Undefined, Str("2025-01-01"), Str("2025/01/31"),
                                  Str("2025-13-40"), Str(" 2025-01-31")})
    [] OTHER -> {}

\* The arguments object a caller may send with a tool name: absent, empty,
\* the base input, the base input without its pagination fields, and the
\* base input with one field replaced, removed or added.
ArgsFor(toolName) ==
  LET Override(o, key, v) == IF v = Undefined THEN Omit(o, key) ELSE Put(o, key, v)
      \* values offered for an identifier field (Undefined: the field is absent)
      IdValues ==
        {Num(i) : i \in 1..MaxId}
        \cup {Undefined, Null, Num(0), Num(-1), Frac(1, ".5"), Str("1")}
      \* the identifiers alone (and the one other field that
      \* update_warmup_settings requires)
      Identifying(kv) == kv.k \in IdFields(toolName) \cup {"warmup_enabled"}
  IN
  {Undefined, Obj(<<>>)}
  \cup (IF toolName \in HandlerNames
        THEN {BaseArgs(toolName), Put(BaseArgs(toolName), "extra_field", Str("extra_value")),
              Omit(Omit(BaseArgs(toolName), "offset"), "limit"),
              Obj(SelectSeq(BaseArgs(toolName).kids, Identifying))}
             \cup {Override(BaseArgs(toolName), f, v) : f \in IdFields(toolName), v \in IdValues}
             \cup {Override(BaseArgs(toolName), fv[1], fv[2]) : fv \in FieldValues(toolName)}
        ELSE {})

RECURSIVE Nest(_, _)
Nest(v, d) ==
  IF d = 0 THEN v
  ELSE Obj(<<KV("data", Arr(<<Nest(v, d - 1), Null>>)), KV("total", Num(d))>>)

\* response.data of a resolved request: any JSON value (a body that is not
\* JSON arrives as the raw string)
Replies ==
  {Obj(<<KV("id", Num(1)), KV("name", Str("X"))>>),
   Obj(<<KV("ok", Bool(TRUE))>>),
   Obj(<<>>), Arr(<<>>), Null, Num(0), Bool(FALSE), Str(""),
   Str("<html>Bad Gateway</html>"),
   Arr(<<Obj(<<KV("id", Num(1))>>), Obj(<<KV("id", Num(2))>>)>>)}
  \cup {Nest(v, d) : v \in {Obj(<<KV("id", Num(1)), KV("name", Str("X"))>>), Arr(<<>>)},
                     d \in 1..MaxDepth}

\* what axios may throw
Failures ==
  LET Statuses == {400, 401, 403, 404, 429, 500}
      ErrorBodies ==
        {Obj(<<KV("error", Str("Campaign not found"))>>),
       Obj(<<KV("error", Str("Unknown tool"))>>),
       Obj(<<KV("message", Str("failed"))>>),
       Arr(<<Str("error")>>), Null, Str("Some non-standard error response")}
      AxiosMessages == {<<Txt("Request failed with status code")>>, <<>>}
      PlainMessages ==
        {<<Txt("Some random error")>>, <<Txt("Smartlead API error")>>,
       <<Txt("proxy: "), Txt("Unknown tool")>>, <<>>}
  IN
  {Thrown(TRUE, TRUE, "AxiosError", m, TRUE, st, d, TRUE) :
      m \in AxiosMessages, st \in Statuses, d \in ErrorBodies}
  \cup {Thrown(TRUE, TRUE, "AxiosError", <<Txt("Network Error")>>, FALSE, 0, Undefined, TRUE),
        Thrown(TRUE, TRUE, "AxiosError", <<Txt("Unsupported protocol")>>, FALSE, 0, Undefined, FALSE),
        Thrown(TRUE, TRUE, "CanceledError", <<Txt("canceled")>>, FALSE, 0, Undefined, FALSE)}
  \cup {Thrown(TRUE, FALSE, "Error", m, FALSE, 0, Undefined, FALSE) : m \in PlainMessages}
  \cup {Thrown(TRUE, FALSE, "TypeError", <<Txt("Some random error")>>, TRUE, 404,
               Obj(<<KV("error", Str("Campaign not found"))>>), TRUE)}
  \cup {Thrown(FALSE, FALSE, "", <<Txt("string error")>>, FALSE, 0, Undefined, FALSE),
        Thrown(FALSE, FALSE, "", <<>>, TRUE, 500, Null, TRUE)}

NoFailure == Thrown(FALSE, FALSE, "", <<>>, FALSE, 0, Undefined, FALSE)

\* ------------------------------------------------------------------------
\* The server: one call-tool request at a time
\* ------------------------------------------------------------------------
VARIABLES
  client,     \* the SmartleadClient: [baseURL, apiKey]
  pc,         \* "idle" | "awaiting" (a client call is in flight) | "done" |
              \* "listed" (the tool list was returned)
  name,       \* request.params.name
  args,       \* request.params.arguments
  params,     \* the handler's parsed params
  calls,      \* client.get/post/delete calls made by this invocation
  requests,   \* axios requests made by this invocation
  reply,      \* [kind |-> "none" | "data" | "thrown", data, thrown]
  caught,     \* the error caught by the call-tool handler (NoErr: none)
  ret,        \* the value the request handler returned
  log,        \* console.error / console.warn lines of this invocation
  other       \* a second invocation of the same server, pending while this
              \* one runs: [pc, name, args, params, calls, requests, reply,
              \* caught, ret, log]

vars == <<client, pc, name, args, params, calls, requests, reply, caught, ret, log, other>>

NoReply == [kind |-> "none", data |-> Undefined, thrown |-> NoFailure]

\* an invocation that has not begun
NoInvocation ==
  [pc |-> "idle", name |-> "", args |-> Undefined, params |-> Undefined,
   calls |-> <<>>, requests |-> <<>>, reply |-> NoReply, caught |-> NoErr,
   ret |-> NoReturn, log |-> <<>>]

Init ==
  /\ client \in {[baseURL |-> BASE_URL, apiKey |-> k] : k \in ApiKeys}
  /\ pc = "idle"
  /\ name = ""
  /\ args = Undefined
  /\ params = Undefined
  /\ calls = <<>>
  /\ requests = <<>>
  /\ reply = NoReply
  /\ caught = NoErr
  /\ ret = NoReturn
  /\ log = <<>>
  /\ other = NoInvocation

\* try { return await executeTool(...) } catch (error) { ... } when
\* executeTool rejects with error
Fails(toolName, error) ==
  /\ caught' = error
  /\ ret' = CallToolCatch(error)
  /\ log' = Warning(toolName) \o <<LogLine(toolName, error)>>
  /\ pc' = "done"

\* the name has no handler: executeTool throws "Unknown tool"
DispatchUnknown(n, a) ==
  /\ pc = "idle"
  /\ toolHandlers(n) = "undefined"
  /\ Fails(n, executeTool(n, a).err)
  /\ name' = n
  /\ args' = a
  /\ UNCHANGED <<client, params, calls, requests, reply, other>>

\* the name is found on Object.prototype and called as the handler
DispatchInherited(n, a) ==
  /\ pc = "idle"
  /\ toolHandlers(n) = "inherited"
  /\ \E x \in {executeTool(n, a)} :
       IF x.kind = "throw" THEN Fails(n, x.err)
       ELSE /\ caught' = NoErr
            /\ ret' = InheritedReturn(client, x.value)
            /\ log' = Warning(n)
            /\ pc' = "done"
  /\ name' = n
  /\ args' = a
  /\ UNCHANGED <<client, params, calls, requests, reply, other>>

\* the handler's schema rejects the arguments
HandlerRejects(n, a) ==
  /\ pc = "idle"
  /\ toolHandlers(n) = "handler"
  /\ \E x \in {executeTool(n, a)} :
       /\ x.kind = "throw"
       /\ Fails(n, x.err)
  /\ name' = n
  /\ args' = a
  /\ UNCHANGED <<client, params, calls, requests, reply, other>>

\* the handler calls the client and awaits it
HandlerSends(n, a) ==
  /\ pc = "idle"
  /\ toolHandlers(n) = "handler"
  /\ \E x \in {executeTool(n, a)} :
       /\ x.kind = "await"
       /\ params' = x.params
       /\ calls' = <<x.call>>
       /\ requests' = <<Outbound(client, x.call)>>
  /\ name' = n
  /\ args' = a
  /\ log' = Warning(n)
  /\ pc' = "awaiting"
  /\ UNCHANGED <<client, reply, caught, ret, other>>

\* axios resolves: the client returns response.data and the handler builds
\* its envelope (or throws while building it)
TransportResolves(data) ==
  /\ pc = "awaiting"
  /\ reply' = [kind |-> "data", data |-> data, thrown |-> NoFailure]
  /\ \E r \in {handler(name, args, data).out} :
       IF r.ok
       THEN /\ ret' = Envelope(r.text)
            /\ caught' = NoErr
            /\ log' = log
            /\ pc' = "done"
       ELSE /\ caught' = r.err
            /\ ret' = CallToolCatch(r.err)
            /\ log' = log \o <<LogLine(name, r.err)>>
            /\ pc' = "done"
  /\ UNCHANGED <<client, name, args, params, calls, requests, other>>

\* axios rejects: the client throws handleError(error), the handler lets it
\* through and the call-tool handler catches it
TransportRejects(error) ==
  /\ pc = "awaiting"
  /\ reply' = [kind |-> "thrown", data |-> Undefined, thrown |-> error]
  /\ requests' = RequestsOnReject(requests)
  /\ caught' = handleError(error)
  /\ ret' = CallToolCatch(handleError(error))
  /\ log' = log \o <<LogLine(name, handleError(error))>>
  /\ pc' = "done"
  /\ UNCHANGED <<client, name, args, params, calls, other>>

\* server.setRequestHandler(ListToolsRequestSchema, ...): the handler
\* returns { tools: ALL_TOOLS }; a tool is modelled by its name.
ListTools ==
  /\ pc = "idle"
  /\ ret' = [kind |-> "tools", content |-> ALL_TOOLS,
             hasIsError |-> FALSE, isError |-> FALSE]
  /\ pc' = "listed"
  /\ UNCHANGED <<client, name, args, params, calls, requests, reply, caught,
                 log, other>>

\* the next request of the session
NextRequest ==
  /\ pc \in {"done", "listed"}
  /\ pc' = "idle"
  /\ name' = ""
  /\ args' = Undefined
  /\ params' = Undefined
  /\ calls' = <<>>
  /\ requests' = <<>>
  /\ reply' = NoReply
  /\ caught' = NoErr
  /\ ret' = NoReturn
  /\ log' = <<>>
  /\ UNCHANGED <<client, other>>

Next ==
  \/ \E n \in ToolNames : \E a \in ArgsFor(n) : DispatchUnknown(n, a)
  \/ \E n \in ToolNames : \E a \in ArgsFor(n) : DispatchInherited(n, a)
  \/ \E n \in ToolNames : \E a \in ArgsFor(n) : HandlerRejects(n, a)
  \/ \E n \in ToolNames : \E a \in ArgsFor(n) : HandlerSends(n, a)
  \/ \E d \in Replies : TransportResolves(d)
  \/ \E e \in Failures : TransportRejects(e)
  \/ ListTools
  \/ NextRequest

Spec == Init /\ [][Next]_vars

\* ------------------------------------------------------------------------
\* The transport client on its own: constructed from a configuration and
\* called directly through get / post / delete
\* ------------------------------------------------------------------------
\* SmartleadClient with the fault of testing the key for undefined only
\* (config.apiKey === undefined for !config.apiKey)
SmartleadClientUndefinedOnly(config) ==
  IF Get(config, "apiKey") = Undefined
  THEN [client |-> [baseURL |-> "", apiKey |-> ""], ok |-> FALSE,
        err |-> Err("Error", <<Txt("Smartlead API key is required"),
                               Txt(". Set SMARTLEAD_API_KEY environment variable.")>>)]
  ELSE [client |-> [baseURL |-> BASE_URL, apiKey |-> Get(config, "apiKey").s],
        ok |-> TRUE, err |-> NoErr]

\* new SmartleadClient(config): the client, or the error the constructor throws
\* (client is then the absent client, with no key and no base address)
SmartleadClient(config) ==
  IF ~Truthy(Get(config, "apiKey"))
  THEN [client |-> [baseURL |-> "", apiKey |-> ""], ok |-> FALSE,
        err |-> Err("Error", <<Txt("Smartlead API key is required"),
                               Txt(". Set SMARTLEAD_API_KEY environment variable.")>>)]
  ELSE [client |-> [baseURL |-> BASE_URL, apiKey |-> Get(config, "apiKey").s],
        ok |-> TRUE, err |-> NoErr]

ClientInit ==
  /\ client = [baseURL |-> "", apiKey |-> ""]
  /\ pc = "new"
  /\ name = ""
  /\ args = Undefined
  /\ params = Undefined
  /\ calls = <<>>
  /\ requests = <<>>
  /\ reply = NoReply
  /\ caught = NoErr
  /\ ret = NoReturn
  /\ log = <<>>
  /\ other = NoInvocation

\* new SmartleadClient(config) returns the client or throws
Construct(config) ==
  /\ pc = "new"
  /\ args' = config
  /\ client' = SmartleadClient(config).client
  /\ caught' = SmartleadClient(config).err
  /\ pc' = IF SmartleadClient(config).ok THEN "idle" ELSE "failed"
  /\ UNCHANGED <<name, params, calls, requests, reply, ret, log, other>>

\* client.get / client.post / client.delete up to the await of axios
ClientSends(call) ==
  /\ pc = "idle"
  /\ calls' = <<call>>
  /\ requests' = <<Outbound(client, call)>>
  /\ reply' = NoReply
  /\ caught' = NoErr
  /\ pc' = "awaiting"
  /\ UNCHANGED <<client, name, args, params, ret, log, other>>

\* axios resolves: the method returns response.data
ClientReturns(data) ==
  /\ pc = "awaiting"
  /\ reply' = [kind |-> "data", data |-> data, thrown |-> NoFailure]
  /\ pc' = "idle"
  /\ UNCHANGED <<client, name, args, params, calls, requests, caught, ret, log, other>>

\* axios rejects: the method throws handleError(error)
ClientThrows(error) ==
  /\ pc = "awaiting"
  /\ reply' = [kind |-> "thrown", data |-> Undefined, thrown |-> error]
  /\ requests' = RequestsOnReject(requests)
  /\ caught' = handleError(error)
  /\ pc' = "idle"
  /\ UNCHANGED <<client, name, args, params, calls, ret, log, other>>

\* Configs: the key missing, undefined, null, empty or a non-empty string.
\* QueryParams: the query parameters a caller may pass.  The calls are
\* get(endpoint, params), post(endpoint, data, params) and
\* delete(endpoint, data, params).
ClientNext ==
  LET Configs ==
        {Obj(<<>>), Obj(<<KV("apiKey", Undefined)>>), Obj(<<KV("apiKey", Null)>>),
         Obj(<<KV("apiKey", Str(""))>>)}
        \cup {Obj(<<KV("apiKey", Str(k))>>) : k \in ApiKeys}
      QueryParams ==
        {Undefined, Obj(<<>>),
         Obj(<<KV("offset", Num(0)), KV("limit", Num(100))>>),
         Obj(<<KV("email", Str("lead@example.com"))>>),
         Obj(<<KV("api_key", Str("caller-key"))>>),
         Obj(<<KV("limit", Num(10)), KV("api_key", Str("key-A"))>>),
         Obj(<<KV("api_key", Undefined), KV("offset", Num(1))>>)}
  IN
  \/ \E config \in Configs : Construct(config)
  \/ \E e \in {<<Txt("/campaigns")>>, <<Txt("/leads")>>} : \E p \in QueryParams :
       ClientSends(Call("get", e, Undefined, p))
  \/ \E m \in {"post", "delete"} :
       \E d \in {Undefined, Obj(<<KV("status", Str("PAUSED"))>>)} :
         \E p \in QueryParams :
           ClientSends(Call(m, <<Txt("/campaigns/1/leads")>>, d, p))
  \/ \E d \in Replies : ClientReturns(d)
  \/ \E e \in Failures : ClientThrows(e)

ClientSpec == ClientInit /\ [][ClientNext]_vars

\* ------------------------------------------------------------------------
\* Two invocations served by one server.  A handler runs without interruption
\* up to its await of the client call; while it waits, the server may begin or
\* resume another invocation.  The variables pc .. log hold the invocation
\* that runs, other the one that is pending.
\* ------------------------------------------------------------------------
\* Switch with the fault of one arguments object shared by both invocations
\* (the pending invocation resumes with the arguments received last)
SwitchSharedArgs ==
  /\ pc' = other.pc
  /\ name' = other.name
  /\ args' = args
  /\ params' = other.params
  /\ calls' = other.calls
  /\ requests' = other.requests
  /\ reply' = other.reply
  /\ caught' = other.caught
  /\ ret' = other.ret
  /\ log' = other.log
  /\ other' = [pc |-> pc, name |-> name, args |-> args, params |-> params,
               calls |-> calls, requests |-> requests, reply |-> reply,
               caught |-> caught, ret |-> ret, log |-> log]
  /\ UNCHANGED client

\* the server turns to the other invocation: each invocation keeps its own
\* name, arguments, params, calls and result; the client is the same
Switch ==
  /\ pc' = other.pc
  /\ name' = other.name
  /\ args' = other.args
  /\ params' = other.params
  /\ calls' = other.calls
  /\ requests' = other.requests
  /\ reply' = other.reply
  /\ caught' = other.caught
  /\ ret' = other.ret
  /\ log' = other.log
  /\ other' = [pc |-> pc, name |-> name, args |-> args, params |-> params,
               calls |-> calls, requests |-> requests, reply |-> reply,
               caught |-> caught, ret |-> ret, log |-> log]
  /\ UNCHANGED client

\* the requests and outcomes offered to the two invocations
ConcNext ==
  LET Names == {"create_campaign", "list_email_accounts", "update_email_account",
                "constructor", "no_such_tool"}
      Args(n) == {BaseArgs(n), Obj(<<>>)}
      Datas == {Obj(<<KV("id", Num(1)), KV("name", Str("X"))>>), Null}
      Errors == {Thrown(TRUE, TRUE, "AxiosError", <<Txt("Request failed with status code")>>,
                        TRUE, 401, Obj(<<KV("error", Str("Campaign not found"))>>), TRUE),
                 Thrown(TRUE, TRUE, "AxiosError", <<Txt("Network Error")>>,
                        FALSE, 0, Undefined, TRUE)}
  IN
  \/ \E n \in Names : \E a \in Args(n) : DispatchUnknown(n, a)
  \/ \E n \in Names : \E a \in Args(n) : DispatchInherited(n, a)
  \/ \E n \in Names : \E a \in Args(n) : HandlerRejects(n, a)
  \/ \E n \in Names : \E a \in Args(n) : HandlerSends(n, a)
  \/ \E d \in Datas : TransportResolves(d)
  \/ \E e \in Errors : TransportRejects(e)
  \/ NextRequest
  \/ Switch

ConcSpec == Init /\ [][ConcNext]_vars

\* ------------------------------------------------------------------------
\* Properties
\* ------------------------------------------------------------------------
Done == pc = "done"

ErrorLabels == {"Validation Error", "API Error", "Tool Error", "Error", "Unknown Error"}

\* the text of the single block of a returned envelope
RetText == ret.content[1].text

\* ret is a failure envelope: one text block "<label>: <message>", isError true
FailureEnvelope ==
  /\ ret.kind = "envelope"
  /\ Len(ret.content) = 1
  /\ ret.content[1].type = "text"
  /\ ret.hasIsError /\ ret.isError
  /\ Len(RetText) >= 2
  /\ RetText[1].k = "txt" /\ RetText[1].s \in ErrorLabels
  /\ RetText[2] = Txt(": ")

Label == RetText[1].s

Message == SubSeq(RetText, 3, Len(RetText))

\* a value that is not a positive integer (or is absent)
NotPositiveInteger(v) == ~(v.t = "num" /\ v.s = "" /\ v.n > 0)

\* a registered handler finished without ever calling the client: its
\* schema rejected the input
ValidationFailed == Done /\ name \in HandlerNames /\ calls = <<>>

\* C1: an input that fails the tool's schema, in particular one whose
\* identifier is absent, 0, negative or not an integer, is rejected with a
\* validation error and no client or axios call is made at any point of the
\* invocation.
C1_InvalidInputRejectedBeforeTransport ==
  /\ (pc # "idle" /\ name \in HandlerNames
      /\ \E f \in IdFields(name) : NotPositiveInteger(Get(args, f)))
       => /\ Done
          /\ calls = <<>> /\ requests = <<>> /\ reply.kind = "none"
          /\ FailureEnvelope /\ Label = "Validation Error"
  /\ (Done /\ caught.name = "ZodError")
       => calls = <<>> /\ requests = <<>> /\ reply.kind = "none"

C1_Witness ==
  /\ Done /\ name = "pause_lead"
  /\ Get(args, "campaign_id") = Num(1) /\ Get(args, "lead_id") = Frac(1, ".5")
  /\ FailureEnvelope /\ Label = "Validation Error" /\ calls = <<>>

\* C2: an invocation whose input passed validation makes exactly one client
\* call and exactly one axios request, while it is in flight and after it
\* resolved or failed; a failed call is not retried.
C2_ExactlyOneTransportCall ==
  /\ pc = "awaiting" => Len(calls) = 1 /\ Len(requests) = 1
  /\ (Done /\ name \in HandlerNames /\ caught.name # "ZodError")
       => Len(calls) = 1 /\ Len(requests) = 1
  /\ (Done /\ reply.kind # "none") => Len(calls) = 1 /\ Len(requests) = 1

C2_Witness ==
  /\ Done /\ name = "resume_lead" /\ reply.kind = "thrown"
  /\ reply.thrown.status = 500 /\ Len(calls) = 1 /\ Len(requests) = 1

\* C3: the call-tool handler always returns; whenever dispatch or a handler
\* threw, it returns an envelope with exactly one text block
\* "<category>: <message>" and isError true, where the message is the
\* error's message.
C3_ThrowBecomesFailureEnvelope ==
  Done =>
    /\ ret.kind \notin {"none", "escaped"}
    /\ caught # NoErr =>
         /\ FailureEnvelope
         /\ \/ Message = caught.msg
            \/ Message = <<Txt("Invalid input: ")>> \o caught.msg

C3_Witness ==
  /\ Done /\ name = "list_email_accounts" /\ reply.kind = "data" /\ reply.data = Null
  /\ caught.name = "TypeError" /\ FailureEnvelope /\ Label = "Error"

\* C4 (as claimed): dispatching a name that is not a declared handler name
\* fails with an "Unknown tool" error and makes no transport call.
C4_UndeclaredNameIsUnknownTool ==
  (Done /\ name \notin HandlerNames) =>
    /\ FailureEnvelope
    /\ caught.isErr /\ Includes(caught.msg, "Unknown tool")
    /\ calls = <<>> /\ requests = <<>>

GenericMessages == {<<Txt("An unexpected error occurred")>>, <<Txt("Unknown error occurred")>>}

\* C5 (as claimed): a failure is a validation error, an API error or a
\* dispatch error, and any other failure (here: every other failed client
\* call) is reported with the generic "unknown error" message.
C5_OtherFailuresAreGeneric ==
  (Done /\ caught # NoErr /\ reply.kind = "thrown") =>
    /\ FailureEnvelope
    /\ \/ Label \in {"Validation Error", "API Error", "Tool Error"}
       \/ Message \in GenericMessages

\* C5 (amended): a failure envelope carries exactly one of five labels,
\* chosen by the first match of: a schema rejection, a message containing
\* "Smartlead API error", a message containing "Unknown tool", any other
\* Error.  A failure outside the three named categories keeps its own
\* message under the label "Error": the fixed no-response message when a
\* request got no response, "Unknown error occurred" when axios threw a
\* value that is not an Error, the Error's message otherwise.
C5_FailureLabels ==
  (Done /\ caught # NoErr) =>
    /\ FailureEnvelope
    /\ Label = (IF ValidationFailed THEN "Validation Error"
                ELSE IF Includes(caught.msg, "Smartlead API error") THEN "API Error"
                ELSE IF Includes(caught.msg, "Unknown tool") THEN "Tool Error"
                ELSE "Error")
    /\ (reply.kind = "thrown" /\ reply.thrown.isAxios
        /\ ~reply.thrown.hasResp /\ reply.thrown.hasReq)
         => Label = "Error" /\ Message = NoResponseMessage
    /\ (reply.kind = "thrown" /\ ~reply.thrown.isErr)
         => Label = "Error" /\ Message = <<Txt("Unknown error occurred")>>
    /\ (reply.kind = "thrown" /\ reply.thrown.isErr /\ ~reply.thrown.isAxios)
         => Message = reply.thrown.msg

C5_Witness ==
  /\ Done /\ reply.kind = "thrown" /\ reply.thrown.isAxios
  /\ ~reply.thrown.hasResp /\ reply.thrown.hasReq
  /\ FailureEnvelope /\ Label = "Error" /\ Message = NoResponseMessage

\* C6: when a handler's schema rejected the input, the failure envelope is
\* "Validation Error: Invalid input: ...", never the API-error or the
\* unknown-tool label, whatever the rejected input contains.
C6_ValidationLabel ==
  ValidationFailed =>
    /\ FailureEnvelope
    /\ Label = "Validation Error"
    /\ Len(RetText) >= 3 /\ RetText[3] = Txt("Invalid input: ")

C6_Witness ==
  /\ ValidationFailed /\ name = "update_campaign_status"
  /\ Get(args, "status") = Str("Smartlead API error")
  /\ Includes(Message, "Smartlead API error")
  /\ Label = "Validation Error"

\* C7 (as claimed): a successful invocation of any registered tool returns
\* one text block whose whole text is the JSON serialization of the
\* upstream response, so that parsing it yields the response.
C7_SuccessTextIsJson ==
  (Done /\ name \in HandlerNames /\ reply.kind = "data" /\ caught = NoErr) =>
    /\ ret.kind = "envelope" /\ Len(ret.content) = 1
    /\ RetText = JSONStringify(reply.data)
    /\ JSONParse(RetText) = reply.data

HintOf(status) ==
  IF status \in {401, 403} THEN <<Txt(" - Check your API key is valid")>>
  ELSE IF status \in {404} THEN <<Txt(" - Resource not found")>>
  ELSE IF status \in {429} THEN <<Txt(" - Rate limit exceeded, please try again later")>>
  ELSE <<>>

DetailOf(e) ==
  IF e.data.t = "obj" /\ "error" \in Keys(e.data)
  THEN <<Txt(": ")>> \o ToText(Get(e.data, "error"))
  ELSE IF e.msg = <<>> THEN <<>> ELSE <<Txt(": ")>> \o e.msg

\* C9: when the upstream answered with an error status, the client rejects
\* with an Error whose message is "Smartlead API error (<status>)", then the
\* body's error text when the body is an object with an error field
\* (otherwise the HTTP library's message), then the credentials hint exactly
\* for 401 and 403, the not-found hint exactly for 404, the rate-limit hint
\* exactly for 429 and no hint for any other status.
C9_ApiErrorMessage ==
  (Done /\ reply.kind = "thrown" /\ reply.thrown.isAxios /\ reply.thrown.hasResp) =>
    /\ caught.isErr /\ ~caught.same
    /\ caught.msg = <<Txt("Smartlead API error"), Txt(" ("),
                      Tok("num", reply.thrown.status, ""), Txt(")")>>
                    \o DetailOf(reply.thrown) \o HintOf(reply.thrown.status)

C9_Witness ==
  /\ Done /\ reply.kind = "thrown" /\ reply.thrown.isAxios /\ reply.thrown.hasResp
  /\ reply.thrown.status = 404
  /\ reply.thrown.data = Obj(<<KV("error", Str("Campaign not found"))>>)
  /\ Includes(caught.msg, "Campaign not found")
  /\ Includes(caught.msg, " - Resource not found")

\* C10: a failed client call rejects with an Error: the fixed no-response
\* message when a request was sent and no response arrived, the original
\* Error object unchanged when the failure is an Error that carries neither
\* a response nor a request, and "Unknown error occurred" when the thrown
\* value is not an Error.
C10_ClientRejectsWithError ==
  (Done /\ reply.kind = "thrown") =>
    /\ caught.isErr
    /\ (reply.thrown.isAxios /\ ~reply.thrown.hasResp /\ reply.thrown.hasReq)
         => caught.msg = NoResponseMessage /\ ~caught.same
    /\ (reply.thrown.isErr /\ ~reply.thrown.hasResp /\ ~reply.thrown.hasReq)
         => caught.same /\ caught.msg = reply.thrown.msg /\ caught.name = reply.thrown.name
    /\ ~reply.thrown.isErr
         => caught.msg = <<Txt("Unknown error occurred")>> /\ ~caught.same

C10_Witness ==
  /\ Done /\ reply.kind = "thrown"
  /\ reply.thrown.isErr /\ ~reply.thrown.isAxios /\ ~reply.thrown.hasResp
  /\ reply.thrown.msg = <<Txt("Some random error")>>
  /\ caught.same /\ caught.msg = <<Txt("Some random error")>>

\* the query parameters the caller passed to the client call in flight
CallerParams == calls[1].params

\* every parameter the caller passed is in the request, unchanged
CallerParamsForwarded ==
  \A i \in DOMAIN requests :
    \A k \in Keys(CallerParams) :
      /\ Has(requests[i].params, k)
      /\ Get(requests[i].params, k) = Get(CallerParams, k)

\* C11 (as stated): every request of get, post or delete carries api_key
\* equal to the key given at construction, together with every parameter the
\* caller passed, unchanged.
C11_KeyAndCallerParams ==
  /\ \A i \in DOMAIN requests :
       Get(requests[i].params, "api_key") = Str(client.apiKey)
  /\ CallerParamsForwarded

\* C11 (amended): every request of get, post or delete carries every
\* parameter the caller passed, unchanged, and nothing else but api_key; api_key
\* is the key given at construction unless the caller passed a parameter named
\* api_key, whose value then takes the key's place.
C11_CallerParamsOverKey ==
  /\ CallerParamsForwarded
  /\ \A i \in DOMAIN requests :
       /\ Keys(requests[i].params) = {"api_key"} \cup Keys(CallerParams)
       /\ ~Has(CallerParams, "api_key") =>
            Get(requests[i].params, "api_key") = Str(client.apiKey)

\* a request in flight whose caller passed limit and its own api_key: the
\* request carries both, and not the key of the client
C11_Witness ==
  /\ pc = "awaiting"
  /\ requests # <<>>
  /\ client.apiKey = "key-B"
  /\ Get(CallerParams, "limit") = Num(10)
  /\ Get(requests[1].params, "limit") = Num(10)
  /\ Get(requests[1].params, "api_key") = Str("key-A")

\* the configuration passed to the constructor has no key, or an empty one
KeyAbsent ==
  \/ ~Has(args, "apiKey")
  \/ Get(args, "apiKey") \in {Undefined, Null, Str("")}

\* C20: constructing the client with a missing, undefined or empty API key
\* throws the configuration error at once, and no client exists that could
\* issue a request without a key; constructing it with a non-empty key gives a
\* client holding that key and the fixed base address.
C20_ConstructionRequiresKey ==
  /\ pc = "failed" <=> (pc # "new" /\ KeyAbsent)
  /\ pc = "failed" =>
       /\ caught.isErr
       /\ Includes(caught.msg, "Smartlead API key is required")
       /\ client.apiKey = ""
       /\ requests = <<>>
  /\ pc \in {"idle", "awaiting"} =>
       /\ caught.msg # <<Txt("Smartlead API key is required"),
                         Txt(". Set SMARTLEAD_API_KEY environment variable.")>>
       /\ client.apiKey # ""
       /\ Str(client.apiKey) = Get(args, "apiKey")
       /\ client.baseURL = BASE_URL
  /\ requests # <<>> => client.apiKey # ""

\* the constructor was given an empty key and threw
C20_Witness ==
  /\ pc = "failed"
  /\ args = Obj(<<KV("apiKey", Str(""))>>)
  /\ Includes(caught.msg, "Smartlead API key is required")

Paginated == {"list_campaign_leads", "list_email_accounts", "get_campaign_statistics"}

\* the value of a pagination field is a number outside its range
LimitOutOfRange == Get(args, "limit").t = "num" /\ (Get(args, "limit").n > 100 \/ Get(args, "limit").n < 1)

OffsetOutOfRange == Get(args, "offset").t = "num" /\ Get(args, "offset").n < 0

\* the pagination parameter the request must carry: the caller's value, or
\* the default when the caller gave none
Carried(key, default) == IF Has(args, key) THEN Get(args, key) ELSE Num(default)

\* C13: a paginated tool rejects limit above 100, limit below 1 and offset
\* below 0 without a request; when offset and limit are both omitted its single
\* request carries offset = 0 and limit = 100; values that are supplied and
\* valid are forwarded unchanged.
C13_Pagination ==
  (pc # "idle" /\ name \in Paginated) =>
    /\ (LimitOutOfRange \/ OffsetOutOfRange) =>
         /\ requests = <<>>
         /\ calls = <<>>
         /\ Done /\ FailureEnvelope /\ Label = "Validation Error"
    /\ requests # <<>> =>
         /\ Len(requests) = 1
         /\ Get(requests[1].params, "offset") = Carried("offset", 0)
         /\ Get(requests[1].params, "limit") = Carried("limit", 100)
         /\ IsInteger(Get(requests[1].params, "offset"))
         /\ IsInteger(Get(requests[1].params, "limit"))
         /\ Get(requests[1].params, "offset").n >= 0
         /\ Get(requests[1].params, "limit").n \in 1..100
    /\ args \in {Omit(Omit(BaseArgs(name), "offset"), "limit"), BaseArgs(name),
                 Put(BaseArgs(name), "limit", Num(100)), Put(BaseArgs(name), "limit", Num(1)),
                 Put(BaseArgs(name), "offset", Num(0))} =>
         Len(requests) = 1

\* get_campaign_statistics called with neither offset nor limit: its request
\* carries the defaults
C13_Witness ==
  /\ pc = "awaiting"
  /\ name = "get_campaign_statistics"
  /\ ~Has(args, "offset") /\ ~Has(args, "limit")
  /\ Get(requests[1].params, "offset") = Num(0)
  /\ Get(requests[1].params, "limit") = Num(100)

C15_EmptyLeadListRejected ==
  (Done /\ name = "add_leads_to_campaign" /\ Get(args, "lead_list") = Arr(<<>>)) =>
    /\ requests = <<>>
    /\ FailureEnvelope /\ Label = "Validation Error"

\* the characters of a date input, each digit written as d
DigitShape(s) ==
  CASE s \in {"2025-01-01", "2025-01-31", "2025-13-40"} -> "dddd-dd-dd"
    [] s = "01-01-2025" -> "dd-dd-dddd"
    [] s = "2025-1-1" -> "dddd-d-d"
    [] s = "2025/01/31" -> "dddd/dd/dd"
    [] s = "2025-01-01T00:00:00Z" -> "dddd-dd-ddTdd:dd:ddZ"
    [] s = " 2025-01-31" -> " dddd-dd-dd"
    [] OTHER -> s

\* v is a string of four digits, a hyphen, two digits, a hyphen, two digits
IsDateText(v) == v.t = "str" /\ DigitShape(v.s) = "dddd-dd-dd"

\* C16: get_campaign_analytics_by_date accepts start_date and end_date
\* exactly when each is four digits, a hyphen, two digits, a hyphen and two
\* digits (no calendar or order check), and forwards both strings verbatim as
\* the start_date and end_date query parameters of its single request.
C16_DatePattern ==
  (pc # "idle" /\ name = "get_campaign_analytics_by_date"
   /\ Get(args, "campaign_id") = Num(1)) =>
    /\ (IsDateText(Get(args, "start_date")) /\ IsDateText(Get(args, "end_date")))
         <=> Len(requests) = 1
    /\ requests = <<>> => (Done /\ FailureEnvelope /\ Label = "Validation Error")
    /\ requests # <<>> =>
         /\ Get(requests[1].params, "start_date") = Get(args, "start_date")
         /\ Get(requests[1].params, "end_date") = Get(args, "end_date")
         /\ Keys(requests[1].params) = {"api_key", "start_date", "end_date"}

\* a start date that is no calendar date, and later than the end date, has
\* been forwarded as it is
C16_Witness ==
  /\ pc = "awaiting"
  /\ name = "get_campaign_analytics_by_date"
  /\ Get(args, "start_date") = Str("2025-13-40")
  /\ Get(requests[1].params, "start_date") = Str("2025-13-40")
  /\ Get(requests[1].params, "end_date") = Str("2025-01-31")

\* the fields with a declared finite domain, each with its tool
FiniteFields ==
  {<<"update_campaign_status", "status">>,
   <<"get_campaign_statistics", "email_status">>,
   <<"update_campaign_settings", "follow_up_percentage">>,
   <<"update_warmup_settings", "reply_rate_percentage">>,
   <<"update_campaign_schedule", "days_of_the_week">>}

\* v is a value of the declared domain of the field
InDomain(field, v) ==
  CASE field = "status" -> v.t = "str" /\ v.s \in {"PAUSED", "STOPPED", "START"}
    [] field = "email_status" ->
         v.t = "str" /\ v.s \in {"opened", "clicked", "replied", "unsubscribed", "bounced"}
    [] field \in {"follow_up_percentage", "reply_rate_percentage"} ->
         IsInteger(v) /\ v.n \in 0..100
    [] field = "days_of_the_week" ->
         v.t = "arr" /\ \A i \in DOMAIN v.kids : IsInteger(v.kids[i].v) /\ v.kids[i].v.n \in 0..6
    [] OTHER -> FALSE

\* C17: a field with a declared finite domain (status, email_status,
\* follow_up_percentage, reply_rate_percentage, days_of_the_week) is accepted
\* exactly when its value is in the domain; any other value is rejected with a
\* validation error before a request is sent.
C17_FiniteDomains ==
  \A nf \in FiniteFields :
    (pc # "idle" /\ name = nf[1] /\ Has(args, nf[2])
     /\ args = Put(BaseArgs(name), nf[2], Get(args, nf[2]))) =>
      /\ InDomain(nf[2], Get(args, nf[2])) <=> Len(requests) = 1
      /\ requests = <<>> =>
           (calls = <<>> /\ Done /\ FailureEnvelope /\ Label = "Validation Error")

\* a status outside the domain has been rejected without a request
C17_Witness ==
  /\ Done
  /\ name = "update_campaign_status"
  /\ Get(args, "status") = Str("ACTIVE")
  /\ requests = <<>>
  /\ Label = "Validation Error"

PassthroughTools == {"create_email_account", "update_email_account"}

\* the undeclared field of the inputs, and the values it is given
UndeclaredMarks == {"extra_field", "extra_value", "x"}

\* the value holds the undeclared field (as a key) or its value, at any depth
RECURSIVE Mentions(_)
Mentions(v) ==
  \/ v.t = "str" /\ v.s \in UndeclaredMarks
  \/ \E i \in DOMAIN v.kids :
       v.kids[i].k \in UndeclaredMarks \/ Mentions(v.kids[i].v)

\* C18: for a tool whose schema is not pass-through, an undeclared input
\* field, at the top level or inside a lead record, never appears in the path,
\* the query parameters or the body of the request.
C18_UndeclaredFieldsDropped ==
  (name \notin PassthroughTools) =>
    \A i \in DOMAIN requests :
      /\ ~Mentions(requests[i].params)
      /\ ~Mentions(requests[i].data)
      /\ \A j \in DOMAIN requests[i].endpoint :
           requests[i].endpoint[j].s \notin UndeclaredMarks

\* leads were posted from an input whose lead record held an undeclared
\* field, and the posted record does not hold it
C18_Witness ==
  /\ pc = "awaiting"
  /\ name = "add_leads_to_campaign"
  /\ Mentions(Get(args, "lead_list"))
  /\ Len(requests) = 1
  /\ Get(requests[1].data, "lead_list").kids # <<>>
  /\ ~Mentions(requests[1].data)

\* the members of an object, without their order
Members(o) == {o.kids[i] : i \in DOMAIN o.kids}

\* C19: update_email_account accepts fields its schema does not declare and
\* forwards them unmodified in the request body together with the declared
\* fields that were supplied; email_account_id alone is taken out of the body
\* and used in the path.
C19_UpdateEmailAccountPassthrough ==
  (pc # "idle" /\ name = "update_email_account") =>
    /\ args = Put(BaseArgs(name), "extra_field", Str("extra_value")) => Len(requests) = 1
    /\ requests # <<>> =>
         /\ Len(requests) = 1
         /\ requests[1].verb = "post"
         /\ requests[1].endpoint = <<Txt("/email-accounts/")>> \o ToText(Get(args, "email_account_id"))
         /\ requests[1].data.t = "obj"
         /\ Members(requests[1].data) = Members(Omit(args, "email_account_id"))
         /\ Keys(requests[1].params) = {"api_key"}

\* an update with an undeclared field is in flight, and its body holds the
\* field with the value given
C19_Witness ==
  /\ pc = "awaiting"
  /\ name = "update_email_account"
  /\ Get(args, "extra_field") = Str("extra_value")
  /\ Get(requests[1].data, "extra_field") = Str("extra_value")
  /\ Get(requests[1].data, "from_name") = Get(args, "from_name")
  /\ ~Has(requests[1].data, "email_account_id")

\* the invocation that runs, as a record like other
This ==
  [pc |-> pc, name |-> name, args |-> args, params |-> params,
   calls |-> calls, requests |-> requests, reply |-> reply,
   caught |-> caught, ret |-> ret, log |-> log]

\* the requests an invocation has made, from its own name and arguments:
\* x is executeTool(name, args)
SentBy(inv, x) ==
  IF inv.pc = "idle" \/ x.kind # "await" THEN <<>> ELSE <<Outbound(client, x.call)>>

\* what the call-tool handler gives for an outcome of the tool handler
ReturnedFor(out) == IF out.ok THEN Envelope(out.text) ELSE CallToolCatch(out.err)

\* the value an invocation has returned, from its own name, arguments and
\* upstream reply: x is executeTool(name, args)
ReturnedBy(inv, x) ==
  CASE inv.pc # "done" -> NoReturn
    [] x.kind = "throw" -> CallToolCatch(x.err)
    [] x.kind = "return" -> InheritedReturn(client, x.value)
    [] inv.reply.kind = "thrown" -> CallToolCatch(handleError(inv.reply.thrown))
    [] OTHER -> ReturnedFor(handler(inv.name, inv.args, inv.reply.data).out)

\* the invocation sent and returned what it would have when served alone
AsAlone(inv) ==
  /\ inv.requests = SentBy(inv, executeTool(inv.name, inv.args))
  /\ inv.ret = ReturnedBy(inv, executeTool(inv.name, inv.args))

Listed == ret.content

C22_HasToolHandlerIffDeclared ==
  hasToolHandler(name) <=> name \in HandlerNames

\* C23: in a failure envelope the label "API Error" appears only when the
\* upstream returned an HTTP error response, and "Tool Error" only when the
\* dispatched name has no registered handler, whatever text the tool name,
\* the upstream error body or a passed-through error message contains.
C23_LabelsFollowTheCause ==
  (Done /\ FailureEnvelope) =>
    /\ Label = "API Error" =>
         reply.kind = "thrown" /\ reply.thrown.isAxios /\ reply.thrown.hasResp
    /\ Label = "Tool Error" => ~hasToolHandler(name)

\* ------------------------------------------------------------------------
\* The API key in what the server gives back
\* ------------------------------------------------------------------------
\* the text holds the client's API key
TextHasKey(text) == \E i \in DOMAIN text : text[i].s = client.apiKey

\* the returned value holds the client's API key
RetHasKey ==
  CASE ret.kind = "envelope" ->
         \E i \in DOMAIN ret.content : TextHasKey(ret.content[i].text)
    [] ret.kind = "client" ->
         \E i \in DOMAIN ret.content : ret.content[i].apiKey = client.apiKey
    [] OTHER -> FALSE

\* a logged line holds the client's API key
LogHasKey == \E i \in DOMAIN log : TextHasKey(log[i])

\* C24: for every tool name, arguments and upstream reply (none of which
\* holds the configured API key), neither the returned value nor a logged
\* line holds the API key, so that servers differing only in their key
\* return the same for the same request and reply.
C24_KeyNeverReturnedOrLogged ==
  Done => ~RetHasKey /\ ~LogHasKey

\* ------------------------------------------------------------------------
\* Handlers: what is sent
\* ------------------------------------------------------------------------
\* the invocation made exactly one client call, with this verb and path
OneCall(m, endpoint) ==
  /\ Len(calls) = 1 /\ Len(requests) = 1
  /\ calls[1].m = m /\ calls[1].endpoint = endpoint

\* the invocation ended with a success envelope
SuccessEnvelope ==
  /\ ret.kind = "envelope" /\ Len(ret.content) = 1
  /\ ret.content[1].type = "text" /\ ~ret.hasIsError

\* C25: dispatching list_email_accounts with the arguments object absent
\* behaves like dispatching it with an empty object: exactly one GET to
\* /email-accounts with offset = 0 and limit = 100, and, once the upstream
\* has answered with a list, a success envelope.
C25_AbsentArgumentsAsEmptyObject ==
  (name = "list_email_accounts" /\ args \in {Undefined, Obj(<<>>)}
   /\ pc \in {"awaiting", "done"}) =>
    /\ OneCall("get", <<Txt("/email-accounts")>>)
    /\ Get(requests[1].params, "offset") = Num(0)
    /\ Get(requests[1].params, "limit") = Num(100)
    /\ (pc = "done" /\ reply.kind = "data" /\ reply.data.t = "arr")
         => SuccessEnvelope

\* the body of the invocation's one client call
Body == calls[1].data

\* C26: create_campaign posts a body that always contains name and contains
\* client_id exactly when the validated input contains a client_id, for
\* every integer the schema accepts, with the supplied value unchanged; when
\* client_id is not supplied the body has no client_id key.
C26_CreateCampaignBody ==
  (name = "create_campaign" /\ calls # <<>>) =>
    /\ OneCall("post", <<Txt("/campaigns/create")>>)
    /\ Has(Body, "name") /\ Get(Body, "name") = Get(params, "name")
    /\ Has(Body, "client_id") <=> Has(params, "client_id")
    /\ Has(params, "client_id") => Get(Body, "client_id") = Get(params, "client_id")
    /\ ~Has(args, "client_id") => ~Has(Body, "client_id")

\* C27: for every input accepted by the create_email_account schema, inputs
\* with extra undeclared fields included, the body posted to
\* /email-accounts/save has id equal to null and carries every other
\* validated field unchanged.
C27_CreateEmailAccountBody ==
  (name = "create_email_account" /\ calls # <<>>) =>
    /\ OneCall("post", <<Txt("/email-accounts/save")>>)
    /\ Has(Body, "id") /\ Get(Body, "id") = Null
    /\ Keys(Body) = Keys(params) \cup {"id"}
    /\ \A k \in Keys(params) \ {"id"} : Get(Body, k) = Get(params, k)

\* the three update tools whose handler posts the rest of its params
UpdateTools ==
  {"update_campaign_schedule", "update_campaign_settings", "update_warmup_settings"}

\* the identifier field of an update tool
IdField(toolName) ==
  IF toolName = "update_warmup_settings" THEN "email_account_id" ELSE "campaign_id"

\* the fields an update tool declares
Declared(toolName) ==
  LET Names(z) == {z.shape[i].name : i \in DOMAIN z.shape} IN
  CASE toolName = "update_campaign_schedule" -> Names(UpdateCampaignScheduleSchema)
    [] toolName = "update_campaign_settings" -> Names(UpdateCampaignSettingsSchema)
    [] OTHER -> Names(UpdateWarmupSettingsSchema)

\* the path of an update tool for the identifier id
UpdatePath(toolName, id) ==
  CASE toolName = "update_campaign_schedule" ->
         <<Txt("/campaigns/"), Tok("num", id.n, id.s), Txt("/schedule")>>
    [] toolName = "update_campaign_settings" ->
         <<Txt("/campaigns/"), Tok("num", id.n, id.s), Txt("/settings")>>
    [] OTHER ->
         <<Txt("/email-accounts/"), Tok("num", id.n, id.s), Txt("/warmup")>>

\* C28: for update_campaign_schedule, update_campaign_settings and
\* update_warmup_settings the path is built from the validated identifier
\* and the body holds exactly the other (declared) fields that were
\* supplied, with their values: the identifier is never in the body and a
\* field that was not supplied does not appear.
C28_UpdateBodyIsTheRest ==
  (name \in UpdateTools /\ calls # <<>>) =>
    /\ OneCall("post", UpdatePath(name, Get(args, IdField(name))))
    /\ Get(params, IdField(name)) = Get(args, IdField(name))
    /\ ~Has(Body, IdField(name))
    /\ Keys(Body) = (Keys(args) \cap Declared(name)) \ {IdField(name)}
    /\ \A k \in Keys(Body) : Get(Body, k) = Get(args, k)

C28_Witness ==
  /\ name = "update_campaign_schedule" /\ pc = "awaiting"
  /\ Get(args, "campaign_id") = Num(1)
  /\ ~Has(args, "timezone") /\ Has(args, "start_hour")
  /\ Has(Body, "start_hour") /\ ~Has(Body, "timezone") /\ ~Has(Body, "campaign_id")

\* the query parameters the handler gave to its one client call
Query == calls[1].params

\* the object holds key exactly when the arguments do, with their value
SentWhenSupplied(o, key) ==
  /\ Has(o, key) <=> Has(args, key)
  /\ Has(args, key) => Get(o, key) = Get(args, key)

\* C29: resume_lead posts a body that holds resume_lead_with_delay_days
\* exactly when it was supplied (0 included) and is the empty object
\* otherwise; get_campaign_statistics sends email_sequence_number and
\* email_status as query parameters exactly when each was supplied,
\* alongside offset and limit.
C29_OptionalFieldsSentWhenSupplied ==
  /\ (name = "resume_lead" /\ calls # <<>>) =>
       /\ Len(calls) = 1 /\ calls[1].m = "post"
       /\ SentWhenSupplied(Body, "resume_lead_with_delay_days")
       /\ Keys(Body) \subseteq {"resume_lead_with_delay_days"}
       /\ ~Has(args, "resume_lead_with_delay_days") => Body = Obj(<<>>)
  /\ (name = "get_campaign_statistics" /\ calls # <<>>) =>
       /\ Len(calls) = 1 /\ calls[1].m = "get"
       /\ SentWhenSupplied(Query, "email_sequence_number")
       /\ SentWhenSupplied(Query, "email_status")
       /\ Has(Query, "offset") /\ Has(Query, "limit")
       /\ Keys(Query) \subseteq
            {"offset", "limit", "email_sequence_number", "email_status"}

C29_Witness ==
  /\ name = "resume_lead" /\ pc = "awaiting"
  /\ Get(args, "resume_lead_with_delay_days") = Num(0)
  /\ Body = Obj(<<KV("resume_lead_with_delay_days", Num(0))>>)

\* the names of the catalog
CatalogNames == {ALL_TOOLS[i] : i \in DOMAIN ALL_TOOLS}

\* a registry-consistency warning was logged by this invocation
WarningLogged ==
  \E i \in DOMAIN log :
    log[i] # <<>> /\ log[i][1] = Txt("[Warning] Handler exists for '")

\* C30: the set of tool names in the catalog equals the set of names that
\* have a registered handler: every listed tool can be dispatched, every
\* dispatchable name is listed, and therefore the registry-consistency
\* warning of executeTool is never emitted.
C30_CatalogMatchesRegistry ==
  /\ CatalogNames = HandlerNames
  /\ \A n \in CatalogNames : toolHandlers(n) = "handler"
  /\ (pc \in {"awaiting", "done"} /\ toolHandlers(name) # "undefined")
       => name \in CatalogNames
  /\ ~WarningLogged

====
